---- MODULE Spec2Model ----
(***************************************************************************)
(* A model of the diagnostic pipeline's engine: the execution ledger and   *)
(* final-contract writer (step4_final_handoff.py), the draft store         *)
(* (step4_json_store.py), the requirements resolver                        *)
(* (requirements_loader.py) and the session handlers of                    *)
(* diagnostic_pipeline_ui.py.                                              *)
(*                                                                         *)
(* Python dicts are functions from keys to values; strings that the code   *)
(* inspects character by character are sequences of one-character strings. *)
(***************************************************************************)
EXTENDS Integers, Sequences, FiniteSets, TLC

VARIABLES
    clock,            \* datetime.now(), in abstract ticks (one tick = one second)
    executions,       \* rows of the SQLite table "executions", in insertion order
    sqlite_sequence,  \* SQLite's AUTOINCREMENT counter for the table
    managerOpen,      \* whether a FinalHandoffManager object is alive in the process
    epoch,            \* how many FinalHandoffManager objects have been constructed
    returned,         \* the ids save_execution_results has returned, in call order
    ledgerOp,         \* the last ledger operation, its arguments and its result
    txn,              \* per concurrent caller of the ledger: its open transaction
    writeLock,        \* the connection that holds the database's write lock
    draftFile,        \* outputs/diagnostic_draft.json: absent, or its content
    draftOp,          \* the last draft-store call: arguments, the file before it, outcome
    written,          \* field -> value of the last upsert_field of it that returned
    upsertCall,       \* per concurrent caller of the draft store: its upsert_field call
    compileOp,        \* the last compile_final_json call: arguments and outcome
    outFiles,         \* the files of output_dir written by save_final_json: name -> content
    persistLog,       \* the save_final_json calls that returned, in call order
    diagnostic_started,  \* st.session_state.diagnostic_started
    selected_config,     \* st.session_state.selected_config
    show_step4,          \* st.session_state.show_step4
    last_lookup_result,  \* st.session_state.last_lookup_result
    current_question,    \* st.session_state.current_question: the field asked for
    agent,               \* st.session_state.chat_ai_agent: the field tracker
    answered,            \* the fields answered since the tracker was last seeded
    sessionOp,           \* the last session event and what it did
    trackerOp,           \* the last call of the field tracker and its outcome
    schemaFile,          \* requirements_context.json: absent, damaged, or its content
    requirements_cache,  \* RequirementsLoader._requirements_cache
    resolveOp            \* the last resolver call: arguments, the cache before it, outcome

txnVars == <<txn, writeLock>>

ledgerVars == <<executions, sqlite_sequence, managerOpen, epoch, returned, ledgerOp, txnVars>>

draftVars == <<draftFile, draftOp, written, upsertCall>>

handoffVars == <<compileOp, outFiles, persistLog>>

sessionVars == <<diagnostic_started, selected_config, show_step4, last_lookup_result,
                 current_question, agent, answered, sessionOp, trackerOp>>

\* The session state apart from the tracker
uiVars == <<diagnostic_started, selected_config, show_step4, last_lookup_result,
            current_question, answered, sessionOp>>

resolverVars == <<schemaFile, requirements_cache, resolveOp>>

vars == <<clock, ledgerVars, draftVars, handoffVars, sessionVars, resolverVars>>

----------------------------------------------------------------------------
(* Bounds of the model *)

MaxClock == 1
MaxExecutions == 2
MaxRestarts == 1
MaxLimit == 1
MaxPersists == 2
MaxHandoffs == 1

----------------------------------------------------------------------------
(* Helpers *)

EmptyDict == [x \in {} |-> x]

SeqToSet(s) == {s[i] : i \in 1..Len(s)}

MaxOf(S) == CHOOSE m \in S : \A n \in S : n <= m

----------------------------------------------------------------------------
(* Clock: datetime.now() is non-decreasing between calls *)

Tick ==
    /\ clock < MaxClock
    /\ clock' = clock + 1

----------------------------------------------------------------------------
(* The execution ledger: step4_final_handoff.py *)

\* A Python value that is handed to json: None, a bool, a str, an int, a dict
\* (key -> value) or an object that is none of these. The key of a dict is a
\* str or an int: <<"str", s>> or <<"int", digits>>.
PyNone == [t |-> "None", atom |-> "", d |-> EmptyDict]
PyStr(s) == [t |-> "str", atom |-> s, d |-> EmptyDict]
PyInt(digits) == [t |-> "int", atom |-> digits, d |-> EmptyDict]
PyBool(b) == [t |-> "bool", atom |-> b, d |-> EmptyDict]
PyDict(d) == [t |-> "dict", atom |-> "", d |-> d]
PyObject == [t |-> "object", atom |-> "", d |-> EmptyDict]
StrKey(s) == <<"str", s>>
IntKey(digits) == <<"int", digits>>

\* A JSON text, by its structure: null, true or false, a string, a number, or an object
\* (name -> JSON text); the names of an object are strings.
JsonNull == [j |-> "null", atom |-> "", members |-> EmptyDict]
JsonString(s) == [j |-> "string", atom |-> s, members |-> EmptyDict]
JsonNumber(digits) == [j |-> "number", atom |-> digits, members |-> EmptyDict]
JsonBool(b) == [j |-> "bool", atom |-> b, members |-> EmptyDict]
JsonObject(members) == [j |-> "object", atom |-> "", members |-> members]

\* json.dumps raises TypeError for a value outside the JSON data model
RECURSIVE JsonSerializable(_)
JsonSerializable(v) ==
    /\ v.t # "object"
    /\ \A k \in DOMAIN v.d : JsonSerializable(v.d[k])

\* json.dumps(v, ensure_ascii=False): the keys of a dict become strings, an
\* int key its decimal digits
RECURSIVE JsonDumps(_)
JsonDumps(v) ==
    IF v.t = "None" THEN JsonNull
    ELSE IF v.t = "str" THEN JsonString(v.atom)
    ELSE IF v.t = "int" THEN JsonNumber(v.atom)
    ELSE IF v.t = "bool" THEN JsonBool(v.atom)
    ELSE JsonObject([name \in {k[2] : k \in DOMAIN v.d} |->
                        JsonDumps(v.d[CHOOSE k \in DOMAIN v.d : k[2] = name])])

\* json.loads(t): the names of an object become str keys
RECURSIVE JsonLoads(_)
JsonLoads(text) ==
    IF text.j = "null" THEN PyNone
    ELSE IF text.j = "string" THEN PyStr(text.atom)
    ELSE IF text.j = "number" THEN PyInt(text.atom)
    ELSE IF text.j = "bool" THEN PyBool(text.atom)
    ELSE PyDict([k \in {StrKey(name) : name \in DOMAIN text.members} |->
                    JsonLoads(text.members[k[2]])])

\* str(v) of a str or an int; the repr of anything else
PyStrOf(v) ==
    IF v.t \in {"str", "int"} THEN v.atom
    ELSE IF v.t = "None" THEN "None"
    ELSE "<repr>"

\* d.get(key, {}) of a dict
GetOrEmpty(v, key) == IF StrKey(key) \in DOMAIN v.d THEN v.d[StrKey(key)] ELSE PyDict(EmptyDict)

\* The contracts and execution results the ledger is driven with.
HeaderA ==
    PyDict(StrKey("model_type") :> PyStr("PD") @@ StrKey("portfolio") :> PyStr("Retail")
           @@ StrKey("purpose") :> PyStr("AIRB"))
HeaderB ==
    PyDict(StrKey("model_type") :> PyStr("LGD") @@ StrKey("portfolio") :> PyStr("Retail")
           @@ StrKey("purpose") :> PyStr("IFRS9"))
ContractA ==
    PyDict(StrKey("header") :> HeaderA
           @@ StrKey("user_specs") :> PyDict(StrKey("x") :> PyInt("1")))
ContractB ==
    PyDict(StrKey("header") :> HeaderB
           @@ StrKey("user_specs") :> PyDict(StrKey("x") :> PyStr("2") @@ StrKey("y") :> PyNone)
           @@ StrKey("meta") :> PyDict(StrKey("last_updated") :> PyStr("t0")))
ContractUnserializable ==
    PyDict(StrKey("header") :> HeaderA
           @@ StrKey("user_specs") :> PyDict(StrKey("x") :> PyObject))
Contracts == {ContractA, ContractB, ContractUnserializable}

\* execution_result: a dict with a status (what the generated script writes),
\* a dict without one, or not a dict (None)
ResultSuccess ==
    PyDict(StrKey("status") :> PyStr("success")
           @@ StrKey("echo") :> PyDict(StrKey("header") :> HeaderA))
ResultNoStatus == PyDict(StrKey("rows") :> PyInt("3"))
ResultNone == PyNone
ExecutionResults == {ResultSuccess, ResultNoStatus, ResultNone}

\* CREATE TABLE IF NOT EXISTS: an existing table and its AUTOINCREMENT counter
\* are left as they are.
DropAndCreateTable(rows, seq) == [rows |-> <<>>, seq |-> 0]
InitDb(rows, seq) == [rows |-> rows, seq |-> seq]

\* INTEGER PRIMARY KEY AUTOINCREMENT: one more than the largest rowid the table
\* has ever held (sqlite_sequence), and than the largest rowid it holds now.
NextRowid(rows, seq) ==
    MaxOf({seq} \cup {rows[i].id : i \in 1..Len(rows)}) + 1

\* status = "unknown"; if isinstance(execution_result, dict):
\*     status = str(execution_result.get("status", status))
ExecutionStatusAlwaysUnknown(execution_result) == "unknown"
ExecutionStatus(execution_result) ==
    IF execution_result.t = "dict" /\ StrKey("status") \in DOMAIN execution_result.d
    THEN PyStrOf(execution_result.d[StrKey("status")])
    ELSE "unknown"

NewRow(id, now, final_json, execution_result) ==
    [id |-> id,
     timestamp |-> now,
     header_json |-> JsonDumps(GetOrEmpty(final_json, "header")),
     user_specs_json |-> JsonDumps(GetOrEmpty(final_json, "user_specs")),
     execution_status |-> ExecutionStatus(execution_result),
     execution_result_json |-> JsonDumps(execution_result)]

NoPayload ==
    [id |-> 0, timestamp |-> 0, execution_status |-> "",
     contract |-> [header |-> JsonNull, user_specs |-> JsonNull],
     execution_result |-> JsonNull]

NoLedgerOp ==
    [op |-> "init", arg |-> 0, rows |-> <<>>, raised |-> "", found |-> FALSE,
     payload |-> NoPayload]

\* FinalHandoffManager.save_execution_results: the three json.dumps, then one
\* INSERT, committed; returns cur.lastrowid. A json.dumps that raises ends the
\* call before the database is opened.
SaveExecutionResults(final_json, execution_result) ==
    /\ managerOpen
    /\ Len(executions) < MaxExecutions
    /\ IF /\ JsonSerializable(GetOrEmpty(final_json, "header"))
          /\ JsonSerializable(GetOrEmpty(final_json, "user_specs"))
          /\ JsonSerializable(execution_result)
       THEN LET id == NextRowid(executions, sqlite_sequence) IN
            /\ executions' = Append(executions, NewRow(id, clock, final_json, execution_result))
            /\ sqlite_sequence' = id
            /\ returned' = Append(returned, [id |-> id, epoch |-> epoch,
                                             final_json |-> final_json,
                                             execution_result |-> execution_result])
            /\ ledgerOp' = [NoLedgerOp EXCEPT !.op = "save", !.arg = id]
       ELSE /\ ledgerOp' = [NoLedgerOp EXCEPT !.op = "save", !.raised = "TypeError"]
            /\ UNCHANGED <<executions, sqlite_sequence, returned>>
    /\ UNCHANGED <<clock, managerOpen, epoch>>

\* ORDER BY id DESC
RECURSIVE OrderByIdDesc(_)
OrderByIdDesc(rows) ==
    IF rows = {} THEN <<>>
    ELSE LET top == CHOOSE r \in rows : \A q \in rows : q.id <= r.id
         IN <<top>> \o OrderByIdDesc(rows \ {top})

\* LIMIT ?: SQLite applies no limit when the bound is negative.
SqlLimitOffByOne(rows, limit) ==
    IF limit < 0 \/ limit + 1 >= Len(rows) THEN rows ELSE SubSeq(rows, 1, limit + 1)
SqlLimit(rows, limit) ==
    IF limit < 0 \/ limit >= Len(rows) THEN rows ELSE SubSeq(rows, 1, limit)

HistoryColumns(r) ==
    [id |-> r.id, timestamp |-> r.timestamp, execution_status |-> r.execution_status]

\* The callers that use the ledger at the same time, each through
\* connections of its own
Writers == {"w1", "w2"}
NoWriter == "none"

NoRow ==
    [id |-> 0, timestamp |-> 0, header_json |-> JsonNull, user_specs_json |-> JsonNull,
     execution_status |-> "", execution_result_json |-> JsonNull]

NoTxn == [pc |-> "idle", row |-> NoRow, final_json |-> PyNone, execution_result |-> PyNone,
          last |-> "none"]

\* The rows of open transactions: inserted, not committed
PendingRows ==
    LET w == CHOOSE v \in Writers : txn[v].pc = "inserted"
    IN IF \E v \in Writers : txn[v].pc = "inserted" THEN <<txn[w].row>> ELSE <<>>

TxnIdle ==
    /\ txn = [w \in Writers |-> NoTxn]
    /\ writeLock = NoWriter

\* save_execution_results up to cur.execute(INSERT ...): the json.dumps, then
\* the INSERT opens a transaction and takes the write lock, and the row gets
\* its rowid. When another connection holds the lock the INSERT gives up with
\* sqlite3.OperationalError (database is locked).
BeginInsert(w, final_json, execution_result) ==
    /\ managerOpen
    /\ txn[w].pc = "idle"
    /\ Len(executions) + Len(PendingRows) < MaxExecutions
    /\ IF /\ JsonSerializable(GetOrEmpty(final_json, "header"))
          /\ JsonSerializable(GetOrEmpty(final_json, "user_specs"))
          /\ JsonSerializable(execution_result)
          /\ writeLock = NoWriter
       THEN /\ writeLock' = w
            /\ txn' = [txn EXCEPT ![w] =
                          [pc |-> "inserted",
                           row |-> NewRow(NextRowid(executions, sqlite_sequence), clock,
                                          final_json, execution_result),
                           final_json |-> final_json, execution_result |-> execution_result,
                           last |-> "none"]]
       ELSE /\ txn' = [txn EXCEPT ![w] = [NoTxn EXCEPT !.last = "failed"]]
            /\ UNCHANGED writeLock
    /\ ledgerOp' = [NoLedgerOp EXCEPT !.op = "insert"]
    /\ UNCHANGED <<clock, executions, sqlite_sequence, managerOpen, epoch, returned>>

\* conn.commit() and return int(cur.lastrowid): the row becomes part of the
\* table and the lock is released
CommitInsert(w) ==
    /\ txn[w].pc = "inserted"
    /\ executions' = Append(executions, txn[w].row)
    /\ sqlite_sequence' = txn[w].row.id
    /\ returned' = Append(returned, [id |-> txn[w].row.id, epoch |-> epoch,
                                     final_json |-> txn[w].final_json,
                                     execution_result |-> txn[w].execution_result])
    /\ txn' = [txn EXCEPT ![w] = [NoTxn EXCEPT !.last = "returned"]]
    /\ writeLock' = NoWriter
    /\ ledgerOp' = [NoLedgerOp EXCEPT !.op = "commit", !.arg = txn[w].row.id]
    /\ UNCHANGED <<clock, managerOpen, epoch>>

\* conn.commit() raises (disk full, I/O error): the with block's __exit__
\* rolls the transaction back and the exception reaches the caller
RollbackInsert(w) ==
    /\ txn[w].pc = "inserted"
    /\ txn' = [txn EXCEPT ![w] = [NoTxn EXCEPT !.last = "failed"]]
    /\ writeLock' = NoWriter
    /\ ledgerOp' = [NoLedgerOp EXCEPT !.op = "rollback", !.raised = "OperationalError"]
    /\ UNCHANGED <<clock, executions, sqlite_sequence, managerOpen, epoch, returned>>

\* What a SELECT on a connection of its own reads: the committed rows, and
\* nothing of the transactions other connections have open
VisibleRowsDirty(committed, pending) == committed \o pending
VisibleRows(committed, pending) == committed

\* FinalHandoffManager.get_execution_history
GetExecutionHistoryResult(rows, limit) ==
    LET sorted == SqlLimit(OrderByIdDesc(SeqToSet(rows)), limit)
    IN [i \in 1..Len(sorted) |-> HistoryColumns(sorted[i])]

GetExecutionHistory(limit) ==
    /\ managerOpen
    /\ ledgerOp' = [NoLedgerOp EXCEPT !.op = "history", !.arg = limit,
                                      !.rows = GetExecutionHistoryResult(
                                                   VisibleRows(executions, PendingRows), limit)]
    /\ UNCHANGED <<clock, executions, sqlite_sequence, managerOpen, epoch, returned>>

\* The payload of download_results for a row: the JSON columns are parsed and
\* the whole is serialized again by json.dumps(payload). A row written by
\* save_execution_results has a non-empty execution_result_json.
DownloadPayload(row) ==
    [id |-> row.id,
     timestamp |-> row.timestamp,
     execution_status |-> row.execution_status,
     contract |-> [header |-> JsonDumps(JsonLoads(row.header_json)),
                   user_specs |-> JsonDumps(JsonLoads(row.user_specs_json))],
     execution_result |-> JsonDumps(JsonLoads(row.execution_result_json))]

\* FinalHandoffManager.download_results: SELECT ... WHERE id = ?; None when
\* there is no such row
DownloadResults(record_id) ==
    /\ managerOpen
    /\ LET visible == VisibleRows(executions, PendingRows)
           matching == {i \in 1..Len(visible) : visible[i].id = record_id}
       IN ledgerOp' = IF matching = {}
                      THEN [NoLedgerOp EXCEPT !.op = "download", !.arg = record_id]
                      ELSE [NoLedgerOp EXCEPT
                               !.op = "download", !.arg = record_id, !.found = TRUE,
                               !.payload = DownloadPayload(visible[CHOOSE i \in matching : TRUE])]
    /\ UNCHANGED <<clock, executions, sqlite_sequence, managerOpen, epoch, returned>>

\* The process exits: the manager object is gone, the database file stays.
CloseManager ==
    /\ managerOpen
    /\ managerOpen' = FALSE
    /\ ledgerOp' = [NoLedgerOp EXCEPT !.op = "close"]
    /\ UNCHANGED <<clock, executions, sqlite_sequence, epoch, returned>>

\* FinalHandoffManager.__init__ against the same db_path: _init_db
NewManager ==
    /\ ~managerOpen
    /\ epoch < MaxRestarts
    /\ LET db == InitDb(executions, sqlite_sequence) IN
        /\ executions' = db.rows
        /\ sqlite_sequence' = db.seq
    /\ managerOpen' = TRUE
    /\ epoch' = epoch + 1
    /\ ledgerOp' = NoLedgerOp
    /\ UNCHANGED <<clock, returned>>

LedgerInit ==
    /\ executions = <<>>
    /\ sqlite_sequence = 0
    /\ managerOpen = TRUE
    /\ epoch = 0
    /\ returned = <<>>
    /\ ledgerOp = NoLedgerOp

----------------------------------------------------------------------------
(* The draft store: step4_json_store.py *)

\* Strings of the header, character by character.
S_PD == <<"P", "D">>
S_LGD == <<"L", "G", "D">>
S_Retail == <<"R", "e", "t", "a", "i", "l">>

\* A value of a JSON object that the code expects to be a dict: the key is
\* absent, holds something that is not a dict, or holds the dict d.
AbsentPart == [kind |-> "absent", d |-> EmptyDict]
NonDictPart == [kind |-> "nondict", d |-> EmptyDict]
DictPart(d) == [kind |-> "dict", d |-> d]

\* "meta": last_updated and, when a completion status was passed, the
\* completion_status.mandatory_complete snapshot ("none" when there is none).
NoMeta == [kind |-> "absent", last_updated |-> 0, mandatory_complete |-> "none"]

\* A JSON object with the keys header, user_specs and meta; {} has none of them.
EmptyDoc == [header |-> AbsentPart, user_specs |-> AbsentPart, meta |-> NoMeta]

\* The draft file: absent, not well-formed JSON (also a partly written
\* document), well-formed JSON that is not an object, or a JSON object.
AbsentFile == [state |-> "absent", doc |-> EmptyDoc]
MalformedFile == [state |-> "malformed", doc |-> EmptyDoc]
NonDictFile == [state |-> "nondict", doc |-> EmptyDoc]
DictFile(doc) == [state |-> "dict", doc |-> doc]

\* A value json.dump cannot serialize (a set, an object): TypeError.
Unserializable == "<object>"

FieldNames == {"a", "b"}
FieldValues == {"v1", "v2", Unserializable}
HeaderInputs == {EmptyDict,
                 [model_type |-> S_PD],
                 [model_type |-> S_LGD, purpose |-> <<"A">>]}
\* completion_status: None, or a dict with all_mandatory_complete
CompletionInputs == {"none", "true"}

\* Step4JSONStore.load: {} when the file is absent or holds no dict;
\* json.load raises JSONDecodeError on a file that is not well-formed.
LoadSwallowingErrors(file) ==
    [raised |-> "", doc |-> IF file.state = "dict" THEN file.doc ELSE EmptyDoc]
Load(file) ==
    IF file.state = "malformed"
    THEN [raised |-> "JSONDecodeError", doc |-> EmptyDoc]
    ELSE [raised |-> "", doc |-> IF file.state = "dict" THEN file.doc ELSE EmptyDoc]

\* json.dump succeeds when every value is of the JSON data model.
Serializable(doc) ==
    \A f \in DOMAIN doc.user_specs.d : doc.user_specs.d[f] # Unserializable

\* bool(completion_status.get("all_mandatory_complete", False)) of a
\* completion_status that is a dict: "true" and "false" are the dicts that hold
\* True and False under the key, "empty" is the dict without the key
MandatoryComplete(completion_status) ==
    IF completion_status = "true" THEN "true" ELSE "false"

\* meta: Dict = {"last_updated": now}; if completion_status is not None:
\*     meta["completion_status"] = {"mandatory_complete": bool(...)}
NewMeta(completion_status, now) ==
    [kind |-> "present", last_updated |-> now,
     mandatory_complete |-> IF completion_status = "none" THEN "none"
                            ELSE MandatoryComplete(completion_status)]

\* The draft dict as the Python value that json.dump is handed: the keys that
\* are present, a value that is not a dict as None, the time stamp as a str
HeaderToPy(part) ==
    IF part.kind # "dict" THEN PyNone
    ELSE PyDict([k \in {StrKey(f) : f \in DOMAIN part.d} |-> PyStr(part.d[k[2]])])

UserSpecsToPy(part) ==
    IF part.kind # "dict" THEN PyNone
    ELSE PyDict([k \in {StrKey(f) : f \in DOMAIN part.d} |->
                    IF part.d[k[2]] = Unserializable THEN PyObject ELSE PyStr(part.d[k[2]])])

MetaToPy(meta) ==
    PyDict((StrKey("last_updated") :> PyStr(meta.last_updated))
           @@ (IF meta.mandatory_complete = "none" THEN EmptyDict
               ELSE StrKey("completion_status") :>
                       PyDict(StrKey("mandatory_complete") :> PyBool(meta.mandatory_complete))))

DocToPy(doc) ==
    PyDict((IF doc.header.kind = "absent" THEN EmptyDict
            ELSE StrKey("header") :> HeaderToPy(doc.header))
           @@ (IF doc.user_specs.kind = "absent" THEN EmptyDict
               ELSE StrKey("user_specs") :> UserSpecsToPy(doc.user_specs))
           @@ (IF doc.meta.kind = "absent" THEN EmptyDict
               ELSE StrKey("meta") :> MetaToPy(doc.meta)))

\* The dict that json.load returns, as a draft
PyToPart(v, key) ==
    IF StrKey(key) \notin DOMAIN v.d THEN AbsentPart
    ELSE LET x == v.d[StrKey(key)] IN
         IF x.t # "dict" THEN NonDictPart
         ELSE DictPart([f \in {k[2] : k \in DOMAIN x.d} |-> x.d[StrKey(f)].atom])

PyToMeta(v) ==
    IF StrKey("meta") \notin DOMAIN v.d THEN NoMeta
    ELSE LET m == v.d[StrKey("meta")].d IN
         [kind |-> "present", last_updated |-> m[StrKey("last_updated")].atom,
          mandatory_complete |->
              IF StrKey("completion_status") \in DOMAIN m
              THEN m[StrKey("completion_status")].d[StrKey("mandatory_complete")].atom
              ELSE "none"]

PyToDoc(v) ==
    [header |-> PyToPart(v, "header"), user_specs |-> PyToPart(v, "user_specs"),
     meta |-> PyToMeta(v)]

\* What json.load reads from the file that json.dump(data, f) has written
WrittenDocument(data) == PyToDoc(JsonLoads(JsonDumps(DocToPy(data))))

\* Step4JSONStore.save: data["meta"] = meta; open(filepath, "w") truncates the
\* file and json.dump writes it piece by piece, so a value that cannot be
\* serialized leaves a partly written document behind and raises TypeError.
SaveKeepingMeta(data, completion_status, now) ==
    IF Serializable(data)
    THEN [file |-> DictFile(WrittenDocument(data)), raised |-> "", draft |-> data]
    ELSE [file |-> MalformedFile, raised |-> "TypeError", draft |-> data]
Save(data, completion_status, now) ==
    LET out == [data EXCEPT !.meta = NewMeta(completion_status, now)]
    IN IF Serializable(out)
       THEN [file |-> DictFile(WrittenDocument(out)), raised |-> "", draft |-> out]
       ELSE [file |-> MalformedFile, raised |-> "TypeError", draft |-> out]

\* draft.setdefault("header", {}); draft["header"].update(header) when it is a
\* dict, else draft["header"] = dict(header)
ReplaceHeader(part, header) == DictPart(header)
MergeHeader(part, header) ==
    IF part.kind = "dict" THEN DictPart(header @@ part.d) ELSE DictPart(header)

\* draft.setdefault("user_specs", {}); reset to {} when it is not a dict;
\* draft["user_specs"][field] = value
SetFieldAppending(part, field, value) ==
    LET d == IF part.kind = "dict" THEN part.d ELSE EmptyDict
    IN DictPart((field :> (IF field \in DOMAIN d THEN d[field] \o value ELSE value)) @@ d)
SetField(part, field, value) ==
    LET d == IF part.kind = "dict" THEN part.d ELSE EmptyDict
    IN DictPart((field :> value) @@ d)

\* Step4JSONStore.upsert_field: load, merge, save; returns the draft.
UpsertField(file, header, field, value, completion_status, now) ==
    LET loaded == Load(file) IN
    IF loaded.raised # ""
    THEN [file |-> file, raised |-> loaded.raised, draft |-> EmptyDoc]
    ELSE Save([loaded.doc EXCEPT !.header = MergeHeader(@, header),
                                 !.user_specs = SetField(@, field, value)],
              completion_status, now)

NoDraftOp ==
    [op |-> "none", header |-> EmptyDict, field |-> "", value |-> "",
     completion_status |-> "none", before |-> AbsentFile, raised |-> "",
     ret |-> EmptyDoc, repeat |-> FALSE, data |-> EmptyDoc, now |-> 0]

\* A call of json_store.load()
DraftLoad ==
    /\ draftOp' = [NoDraftOp EXCEPT !.op = "load", !.before = draftFile,
                                    !.raised = Load(draftFile).raised,
                                    !.ret = Load(draftFile).doc]
    /\ UNCHANGED <<clock, draftFile, written, upsertCall>>

\* A call of json_store.upsert_field(header, field, value, completion_status)
DraftUpsert(header, field, value, completion_status) ==
    LET r == UpsertField(draftFile, header, field, value, completion_status, clock) IN
    /\ draftFile' = r.file
    /\ draftOp' = [op |-> "upsert", header |-> header, field |-> field, value |-> value,
                   completion_status |-> completion_status, before |-> draftFile,
                   raised |-> r.raised, ret |-> r.draft,
                   repeat |-> /\ draftOp.op = "upsert"
                              /\ draftOp.header = header
                              /\ draftOp.field = field
                              /\ draftOp.value = value
                              /\ draftOp.completion_status = completion_status,
                   data |-> EmptyDoc, now |-> 0]
    /\ written' = IF r.raised = "" THEN (field :> value) @@ written ELSE written
    /\ UNCHANGED <<clock, upsertCall>>

\* The dicts save is called with: {}, a draft without meta, a draft that
\* carries the meta of an earlier load, a draft whose header is not a dict,
\* and a draft with a value that cannot be serialized
SaveInputs ==
    {EmptyDoc,
     [header |-> DictPart([model_type |-> S_PD]), user_specs |-> DictPart([b |-> "v1"]),
      meta |-> NoMeta],
     [header |-> DictPart([purpose |-> <<"A">>]), user_specs |-> DictPart(EmptyDict),
      meta |-> NewMeta("true", 0)],
     [header |-> NonDictPart, user_specs |-> DictPart([a |-> "v1", b |-> "v2"]),
      meta |-> NoMeta],
     [header |-> AbsentPart, user_specs |-> DictPart([a |-> Unserializable]),
      meta |-> NoMeta]}

\* completion_status of save: None, or a dict that holds True, holds False or
\* does not hold all_mandatory_complete
SaveCompletionInputs == {"none", "true", "false", "empty"}

\* A call of json_store.save(data, completion_status), with the time of the
\* call. The draft is replaced, so the record of the fields written by
\* upsert_field starts again.
DraftSave(data, completion_status) ==
    LET r == Save(data, completion_status, clock) IN
    /\ draftFile' = r.file
    /\ draftOp' = [NoDraftOp EXCEPT !.op = "save", !.completion_status = completion_status,
                                    !.before = draftFile, !.raised = r.raised,
                                    !.ret = r.draft, !.data = data, !.now = clock]
    /\ written' = EmptyDict
    /\ UNCHANGED <<clock, upsertCall>>

\* Two processes that call upsert_field on the same draft path. The store
\* takes no lock, so the file operations of one call (the read of load, the
\* truncating open of save, the write of json.dump) interleave with those of
\* the other; the merge works on the caller's own dict.
DraftWriters == {"p1", "p2"}

NoUpsertCall ==
    [pc |-> "idle", field |-> "", value |-> "", completion_status |-> "none",
     now |-> 0, draft |-> EmptyDoc, last |-> "none"]

NoUpsertCalls == [w \in DraftWriters |-> NoUpsertCall]

\* draft = self.load(), then the merge of header and field into draft
UpsertLoad(w, header, field, value, completion_status) ==
    LET loaded == Load(draftFile) IN
    /\ upsertCall[w].pc = "idle"
    /\ upsertCall' =
          [upsertCall EXCEPT ![w] =
              IF loaded.raised # ""
              THEN [NoUpsertCall EXCEPT !.field = field, !.value = value,
                                        !.last = loaded.raised]
              ELSE [pc |-> "loaded", field |-> field, value |-> value,
                    completion_status |-> completion_status, now |-> 0,
                    draft |-> [loaded.doc EXCEPT !.header = MergeHeader(@, header),
                                                 !.user_specs = SetField(@, field, value)],
                    last |-> "running"]]
    /\ UNCHANGED <<clock, draftFile, draftOp, written>>

\* save: meta is stamped with datetime.now(); open(self.filepath, "w") leaves
\* an empty file, which is not a JSON document
UpsertOpen(w) ==
    /\ upsertCall[w].pc = "loaded"
    /\ draftFile' = MalformedFile
    /\ upsertCall' = [upsertCall EXCEPT ![w].pc = "opened", ![w].now = clock]
    /\ UNCHANGED <<clock, draftOp, written>>

\* save: json.dump(data, f) and the close of the file; return draft
UpsertDump(w) ==
    LET c == upsertCall[w]
        r == Save(c.draft, c.completion_status, c.now) IN
    /\ c.pc = "opened"
    /\ draftFile' = r.file
    /\ upsertCall' = [upsertCall EXCEPT ![w] =
                         [c EXCEPT !.pc = "idle", !.draft = r.draft,
                                   !.last = IF r.raised = "" THEN "returned" ELSE r.raised]]
    /\ written' = IF r.raised = "" THEN (c.field :> c.value) @@ written ELSE written
    /\ UNCHANGED <<clock, draftOp>>

\* The states the draft path can be in when the store is constructed.
InitialDraftFiles ==
    {AbsentFile, MalformedFile, NonDictFile, DictFile(EmptyDoc),
     DictFile([header |-> NonDictPart, user_specs |-> NonDictPart, meta |-> NoMeta]),
     DictFile([header |-> DictPart([portfolio |-> S_Retail, model_type |-> S_LGD]),
               user_specs |-> DictPart([a |-> "v2"]),
               meta |-> NewMeta("false", 0)])}

DraftIdle ==
    /\ draftFile = AbsentFile
    /\ draftOp = NoDraftOp
    /\ written = EmptyDict
    /\ upsertCall = NoUpsertCalls

DraftInit ==
    /\ draftFile \in InitialDraftFiles
    /\ draftOp = NoDraftOp
    /\ written = EmptyDict
    /\ upsertCall = NoUpsertCalls

----------------------------------------------------------------------------
(* Compiling and writing the final contract: step4_final_handoff.py *)

S_UNKNOWN == <<"U", "N", "K", "N", "O", "W", "N">>
S_final_contract == <<"f", "i", "n", "a", "l", "_", "c", "o", "n", "t", "r", "a", "c", "t">>
S_json == <<".", "j", "s", "o", "n">>

\* required_header_keys = ["model_type", "portfolio", "purpose"]
RequiredHeaderKeys == <<"model_type", "portfolio", "purpose">>

\* header.get(k) is truthy: the key is present and its string is not empty.
Truthy(header, k) == k \in DOMAIN header /\ header[k] # <<>>

\* missing = [k for k in required_header_keys if not header.get(k)]
MissingKeysAbsentOnly(header) ==
    SelectSeq(RequiredHeaderKeys, LAMBDA k : k \notin DOMAIN header)
MissingKeys(header) ==
    SelectSeq(RequiredHeaderKeys, LAMBDA k : ~Truthy(header, k))

\* FinalContract(header=header, user_specs=user_specs).to_dict()
ToDictRequiredKeysOnly(header, user_specs) ==
    [header |-> DictPart([k \in DOMAIN header \cap SeqToSet(RequiredHeaderKeys) |-> header[k]]),
     user_specs |-> DictPart(user_specs),
     meta |-> NoMeta]
ToDict(header, user_specs) ==
    [header |-> DictPart(header), user_specs |-> DictPart(user_specs), meta |-> NoMeta]

\* FinalHandoffManager.compile_final_json: TypeError when an argument is not a
\* dict, ValueError naming the missing header keys, else the contract.
CompileFinalJson(header, user_specs) ==
    IF header.kind # "dict" \/ user_specs.kind # "dict"
    THEN [raised |-> "TypeError", missing |-> <<>>, contract |-> EmptyDoc]
    ELSE IF MissingKeys(header.d) # <<>>
    THEN [raised |-> "ValueError", missing |-> MissingKeys(header.d), contract |-> EmptyDoc]
    ELSE [raised |-> "", missing |-> <<>>, contract |-> ToDict(header.d, user_specs.d)]

\* The arguments compile_final_json is driven with: header keys absent, empty
\* or set, one key beyond the required three, and arguments that are no dicts.
CompileHeaderValues == {<<>>, S_PD}
CompileHeaderKeys == {"model_type", "portfolio", "purpose", "note"}
CompileHeaders ==
    {NonDictPart} \cup
    {DictPart(h) : h \in UNION {[K -> CompileHeaderValues] : K \in SUBSET CompileHeaderKeys}}
CompileUserSpecs == {NonDictPart, DictPart(EmptyDict), DictPart([x |-> "1"])}

NoCompileOp ==
    [op |-> "none", header |-> AbsentPart, user_specs |-> AbsentPart,
     raised |-> "", missing |-> <<>>, contract |-> EmptyDoc]

\* A call of manager.compile_final_json(header, user_specs)
Compile(header, user_specs) ==
    LET r == CompileFinalJson(header, user_specs) IN
    /\ compileOp' = [op |-> "compile", header |-> header, user_specs |-> user_specs,
                     raised |-> r.raised, missing |-> r.missing, contract |-> r.contract]
    /\ UNCHANGED <<clock, outFiles, persistLog>>

\* str.replace(" ", "_")
ReplaceSpaces(str) == [i \in 1..Len(str) |-> IF str[i] = " " THEN "_" ELSE str[i]]

\* datetime.now().strftime("%Y%m%d_%H%M%S"): one value per second
Digits == <<"0", "1", "2", "3", "4", "5", "6", "7", "8", "9">>
Strftime(now) ==
    <<"2", "0", "2", "6", "0", "1", "0", "1", "_", "0", "0", "0", "0", "0", Digits[now + 1]>>

\* str(header.get(k, "UNKNOWN")).replace(" ", "_")
HeaderPart(header, k) ==
    ReplaceSpaces(IF k \in DOMAIN header THEN header[k] ELSE S_UNKNOWN)

\* f"final_contract_{model_type}_{portfolio}_{purpose}_{timestamp}.json"
FinalFilename(header, now) ==
    S_final_contract \o <<"_">> \o HeaderPart(header, "model_type")
        \o <<"_">> \o HeaderPart(header, "portfolio")
        \o <<"_">> \o HeaderPart(header, "purpose")
        \o <<"_">> \o Strftime(now) \o S_json

\* No filename was passed (filename is None).
NoFilename == <<>>

\* FinalHandoffManager.save_final_json: header = final_json.get("header") or {};
\* the name is derived from the header when none is given (header.get raises
\* AttributeError on a header that is no dict); open(path, "w") and json.dump
\* write the file in place.
SaveFinalJson(files, final_json, filename, now) ==
    LET header == IF final_json.header.kind = "dict" THEN final_json.header.d ELSE EmptyDict
        name == IF filename = NoFilename THEN FinalFilename(header, now) ELSE filename
    IN IF filename = NoFilename /\ final_json.header.kind = "nondict"
       THEN [files |-> files, raised |-> "AttributeError", path |-> <<>>]
       ELSE IF Serializable(final_json)
       THEN [files |-> (name :> DictFile(final_json)) @@ files, raised |-> "", path |-> name]
       ELSE [files |-> (name :> MalformedFile) @@ files, raised |-> "TypeError", path |-> name]

\* The headers save_final_json is driven with through compile_final_json.
PersistHeaders ==
    {[model_type |-> mt, portfolio |-> pf, purpose |-> <<"D">>] :
        mt \in {<<"A">>, <<"A", " ", "B">>, <<"A", "_", "B">>},
        pf \in {<<"C">>, <<"B", "_", "C">>}}
ExplicitFilenames == {<<"c", ".", "j", "s", "o", "n">>}

\* A call of manager.save_final_json(contract, filename) with the contract that
\* compile_final_json returns for the header.
Persist(header, filename) ==
    LET c == CompileFinalJson(DictPart(header), DictPart([x |-> "1"]))
        r == SaveFinalJson(outFiles, c.contract, filename, clock)
    IN /\ Len(persistLog) < MaxPersists
       /\ c.raised = ""
       /\ outFiles' = r.files
       /\ persistLog' = IF r.raised # "" THEN persistLog
                        ELSE Append(persistLog,
                                    [path |-> r.path, header |-> c.contract.header,
                                     auto |-> filename = NoFilename, time |-> clock,
                                     existed |-> r.path \in DOMAIN outFiles])
       /\ UNCHANGED <<clock, compileOp>>

HandoffInit ==
    /\ compileOp = NoCompileOp
    /\ outFiles = EmptyDict
    /\ persistLog = <<>>

----------------------------------------------------------------------------
(* The requirements resolver: requirements_loader.py *)

S_Requirements == <<"R", "e", "q", "u", "i", "r", "e", "m", "e", "n", "t", "s">>
S_IFRS == <<"I", "F", "R", "S">>
S_IFRS9 == <<"I", "F", "R", "S", "9">>
S_AIRB == <<"A", "I", "R", "B">>
S_true == <<"t", "r", "u", "e">>

LowerToUpper ==
    [a |-> "A", b |-> "B", c |-> "C", d |-> "D", e |-> "E", f |-> "F", g |-> "G",
     h |-> "H", i |-> "I", j |-> "J", k |-> "K", l |-> "L", m |-> "M", n |-> "N",
     o |-> "O", p |-> "P", q |-> "Q", r |-> "R", s |-> "S", t |-> "T", u |-> "U",
     v |-> "V", w |-> "W", x |-> "X", y |-> "Y", z |-> "Z"]

UpperToLower ==
    [A |-> "a", B |-> "b", C |-> "c", D |-> "d", E |-> "e", F |-> "f", G |-> "g",
     H |-> "h", I |-> "i", J |-> "j", K |-> "k", L |-> "l", M |-> "m", N |-> "n",
     O |-> "o", P |-> "p", Q |-> "q", R |-> "r", S |-> "s", T |-> "t", U |-> "u",
     V |-> "v", W |-> "w", X |-> "x", Y |-> "y", Z |-> "z"]

\* str.upper()
Upper(str) ==
    [i \in 1..Len(str) |-> IF str[i] \in DOMAIN LowerToUpper THEN LowerToUpper[str[i]] ELSE str[i]]

\* str.lower()
Lower(str) ==
    [i \in 1..Len(str) |-> IF str[i] \in DOMAIN UpperToLower THEN UpperToLower[str[i]] ELSE str[i]]

\* str.split(sep)[0]: the part before the first sep, all of str when it has none
SplitFirst(str, sep) ==
    IF \E i \in 1..Len(str) : str[i] = sep
    THEN SubSeq(str, 1, (CHOOSE i \in 1..Len(str) :
                            str[i] = sep /\ \A j \in 1..(i - 1) : str[j] # sep) - 1)
    ELSE str

\* The characters str.strip() removes
Whitespace == {" ", "\t", "\n"}

\* str.strip(): without leading and trailing whitespace
RECURSIVE Strip(_)
Strip(str) ==
    IF str # <<>> /\ Head(str) \in Whitespace THEN Strip(Tail(str))
    ELSE IF str # <<>> /\ str[Len(str)] \in Whitespace THEN Strip(SubSeq(str, 1, Len(str) - 1))
    ELSE str

\* purpose.upper().split(" ")[0].split("(")[0].strip()
Normalize(str) == Strip(SplitFirst(SplitFirst(Upper(str), " "), "("))

\* RequirementsLoader._build_lookup_key
BuildLookupKeyNoSpecialCase(purpose, model_type) ==
    Normalize(purpose) \o <<"_">> \o Normalize(model_type) \o <<"_">> \o S_Requirements
BuildLookupKey(purpose, model_type) ==
    LET purpose_normalized == IF Normalize(purpose) = S_IFRS THEN S_IFRS9
                              ELSE Normalize(purpose)
    IN purpose_normalized \o <<"_">> \o Normalize(model_type) \o <<"_">> \o S_Requirements

\* The "mandatory" attribute of a field of the schema document: a JSON boolean
\* or a JSON string
BoolValue(b) == [kind |-> "bool", b |-> b, s |-> <<>>]
StrValue(s) == [kind |-> "str", b |-> FALSE, s |-> s]

\* if isinstance(field_config['mandatory'], str):
\*     field_config['mandatory'] = field_config['mandatory'].lower() == 'true'
NormalizeMandatoryExact(value) ==
    IF value.kind = "str" THEN BoolValue(value.s = S_true) ELSE value
NormalizeMandatory(value) ==
    IF value.kind = "str" THEN BoolValue(Lower(value.s) = S_true) ELSE value

\* The loop of get_active_requirements over the fields of one configuration
NormalizeFields(fields) ==
    [i \in 1..Len(fields) |-> [fields[i] EXCEPT !.mandatory = NormalizeMandatory(@)]]

\* The requirements file on disk: absent, not readable by the process, not
\* well-formed JSON, or JSON whose top-level value is null, a list, a number
\* or an object (doc: lookup key -> the fields of the configuration in
\* declaration order)
SchemaAbsent == [state |-> "absent", doc |-> EmptyDict]
SchemaUnreadable == [state |-> "unreadable", doc |-> EmptyDict]
SchemaMalformed == [state |-> "malformed", doc |-> EmptyDict]
SchemaNull == [state |-> "null", doc |-> EmptyDict]
SchemaList == [state |-> "list", doc |-> EmptyDict]
SchemaNumber == [state |-> "number", doc |-> EmptyDict]
SchemaMapping(doc) == [state |-> "mapping", doc |-> doc]

S_Adjudication == <<"A", "d", "j", "u", "d", "i", "c", "a", "t", "i", "o", "n">>

\* requirements_context.json: lookup key -> the fields of the configuration in
\* declaration order. One configuration has two mandatory fields and an
\* optional one, the other has only an optional field.
SchemaDocument ==
    (BuildLookupKey(S_AIRB, <<"P", "D">>) :>
        <<[field_name |-> "m1", mandatory |-> StrValue(<<"T", "r", "u", "e">>)],
          [field_name |-> "o1", mandatory |-> StrValue(<<"f", "a", "l", "s", "e">>)],
          [field_name |-> "m2", mandatory |-> BoolValue(TRUE)]>>)
    @@ (BuildLookupKey(S_IFRS9, <<"L", "G", "D">>) :>
        <<[field_name |-> "o1", mandatory |-> StrValue(<<"y", "e", "s">>)]>>)

\* Another document: a key whose purpose is not all uppercase, a key whose
\* model type has two segments, a key with two underscores before the suffix,
\* the suffix alone, and two keys that are not configurations
CatalogDocument ==
    ((S_Adjudication \o <<"_", "P", "D", "_">> \o S_Requirements) :>
        <<[field_name |-> "m1", mandatory |-> StrValue(<<"T", "R", "U", "E">>)],
          [field_name |-> "o1", mandatory |-> BoolValue(FALSE)]>>)
    @@ ((S_AIRB \o <<"_", "P", "D", "_", "L", "G", "D", "_">> \o S_Requirements) :> <<>>)
    @@ ((S_IFRS9 \o <<"_", "E", "A", "D", "_", "_">> \o S_Requirements) :> <<>>)
    @@ ((<<"_">> \o S_Requirements) :> <<>>)
    @@ (S_Requirements :> <<>>)
    @@ (<<"V", "e", "r", "s", "i", "o", "n">> :> <<>>)

SchemaFiles ==
    {SchemaAbsent, SchemaUnreadable, SchemaMalformed, SchemaNull, SchemaList, SchemaNumber,
     SchemaMapping(SchemaDocument), SchemaMapping(CatalogDocument)}

\* self._requirements_cache: None, or what json.load returned
NoCache == [kind |-> "none", doc |-> EmptyDict]

\* RequirementsLoader._load_requirements_file: the cached value when there is
\* one; otherwise the file is read, and what json.load returns is cached.
LoadRequirementsFileUncached(cache, file) ==
    IF file.state = "absent" THEN [raised |-> "FileNotFoundError", cache |-> cache]
    ELSE IF file.state = "unreadable" THEN [raised |-> "PermissionError", cache |-> cache]
    ELSE IF file.state = "malformed" THEN [raised |-> "JSONDecodeError", cache |-> cache]
    ELSE IF file.state = "null" THEN [raised |-> "", cache |-> NoCache]
    ELSE [raised |-> "", cache |-> [kind |-> file.state, doc |-> file.doc]]
LoadRequirementsFile(cache, file) ==
    IF cache.kind # "none" THEN [raised |-> "", cache |-> cache]
    ELSE IF file.state = "absent" THEN [raised |-> "FileNotFoundError", cache |-> cache]
    ELSE IF file.state = "unreadable" THEN [raised |-> "PermissionError", cache |-> cache]
    ELSE IF file.state = "malformed" THEN [raised |-> "JSONDecodeError", cache |-> cache]
    ELSE IF file.state = "null" THEN [raised |-> "", cache |-> NoCache]
    ELSE [raised |-> "", cache |-> [kind |-> file.state, doc |-> file.doc]]

\* lookup_key in requirements_data: membership in a dict's keys or a list's
\* items; None and numbers are not containers (TypeError)
KeyIn(key, data) ==
    IF data.kind = "mapping" THEN [raised |-> "", value |-> key \in DOMAIN data.doc]
    ELSE IF data.kind = "list" THEN [raised |-> "", value |-> FALSE]
    ELSE [raised |-> "TypeError", value |-> FALSE]

\* str.endswith(suffix)
EndsWith(str, suffix) ==
    /\ Len(str) >= Len(suffix)
    /\ SubSeq(str, Len(str) - Len(suffix) + 1, Len(str)) = suffix

\* list(requirements_data.keys())
AvailableKeysConfigurationsOnly(data) ==
    {key \in DOMAIN data.doc : EndsWith(key, <<"_">> \o S_Requirements)}
AvailableKeys(data) == DOMAIN data.doc

NoResolution ==
    [raised |-> "", lookup_key |-> <<>>, available_keys |-> {}, requirements |-> <<>>,
     valid |-> FALSE, configurations |-> EmptyDict, cache |-> NoCache]

\* RequirementsLoader.get_active_requirements. The fields of the configuration
\* are normalized in place, that is, in the cached document.
GetActiveRequirements(cache, file, purpose, model_type) ==
    LET lookup_key == BuildLookupKey(purpose, model_type)
        loaded == LoadRequirementsFile(cache, file)
        data == loaded.cache
        found == KeyIn(lookup_key, data)
        failed(error) == [NoResolution EXCEPT !.raised = error, !.lookup_key = lookup_key,
                                              !.cache = data]
    IN IF loaded.raised # "" THEN failed(loaded.raised)
       ELSE IF found.raised # "" THEN failed(found.raised)
       ELSE IF ~found.value
       THEN IF data.kind # "mapping" THEN failed("AttributeError")
            ELSE [failed("ValueError") EXCEPT !.available_keys = AvailableKeys(data)]
       ELSE [NoResolution EXCEPT
                !.lookup_key = lookup_key,
                !.requirements = NormalizeFields(data.doc[lookup_key]),
                !.cache = [data EXCEPT !.doc[lookup_key] = NormalizeFields(@)]]

\* RequirementsLoader.validate_configuration: FileNotFoundError and
\* json.JSONDecodeError are turned into False
ValidateConfiguration(cache, file, purpose, model_type) ==
    LET lookup_key == BuildLookupKey(purpose, model_type)
        loaded == LoadRequirementsFile(cache, file)
        found == KeyIn(lookup_key, loaded.cache)
        done(error, value) == [NoResolution EXCEPT !.raised = error, !.lookup_key = lookup_key,
                                                   !.valid = value, !.cache = loaded.cache]
    IN IF loaded.raised \in {"FileNotFoundError", "JSONDecodeError"} THEN done("", FALSE)
       ELSE IF loaded.raised # "" THEN done(loaded.raised, FALSE)
       ELSE done(found.raised, found.value)

\* str.split(sep): the parts between the occurrences of sep
RECURSIVE Split(_, _)
Split(str, sep) ==
    IF \E i \in 1..Len(str) : str[i] = sep
    THEN <<SplitFirst(str, sep)>>
         \o Split(SubSeq(str, Len(SplitFirst(str, sep)) + 2, Len(str)), sep)
    ELSE <<str>>

\* sep.join(parts)
RECURSIVE Join(_, _)
Join(parts, sep) ==
    IF parts = <<>> THEN <<>>
    ELSE IF Len(parts) = 1 THEN parts[1]
    ELSE parts[1] \o <<sep>> \o Join(Tail(parts), sep)

\* str.rstrip(ch)
RECURSIVE RStrip(_, _)
RStrip(str, ch) ==
    IF str # <<>> /\ str[Len(str)] = ch THEN RStrip(SubSeq(str, 1, Len(str) - 1), ch)
    ELSE str

\* The body of the loop of get_available_configurations for one key that ends
\* with "_Requirements": parts = key[:-12].split("_")
ParseConfigurationKeySecondPart(key) ==
    LET parts == Split(SubSeq(key, 1, Len(key) - 12), "_")
    IN [purpose |-> parts[1], model_type |-> RStrip(parts[2], "_")]
ParseConfigurationKey(key) ==
    LET parts == Split(SubSeq(key, 1, Len(key) - 12), "_")
        model_type == IF Len(parts) > 2 THEN Join(Tail(parts), "_") ELSE parts[2]
    IN [purpose |-> parts[1], model_type |-> RStrip(model_type, "_")]

\* RequirementsLoader.get_available_configurations: FileNotFoundError and
\* json.JSONDecodeError are turned into {}
GetAvailableConfigurations(cache, file) ==
    LET loaded == LoadRequirementsFile(cache, file)
        data == loaded.cache
        done(error, value) == [NoResolution EXCEPT !.raised = error, !.configurations = value,
                                                   !.cache = data]
        keys == {key \in DOMAIN data.doc :
                    /\ EndsWith(key, <<"_">> \o S_Requirements)
                    /\ Len(Split(SubSeq(key, 1, Len(key) - 12), "_")) >= 2}
    IN IF loaded.raised \in {"FileNotFoundError", "JSONDecodeError"} THEN done("", EmptyDict)
       ELSE IF loaded.raised # "" THEN done(loaded.raised, EmptyDict)
       ELSE IF data.kind # "mapping" THEN done("AttributeError", EmptyDict)
       ELSE done("", [key \in keys |-> ParseConfigurationKey(key)])

\* RequirementsLoader.clear_cache
ClearCacheResult(cache) == NoCache

NoResolveOp ==
    [op |-> "none", purpose |-> <<>>, model_type |-> <<>>, before |-> NoCache,
     ret |-> NoResolution]

\* A call of loader.get_active_requirements(purpose, model_type)
Resolve(purpose, model_type) ==
    LET r == GetActiveRequirements(requirements_cache, schemaFile, purpose, model_type) IN
    /\ requirements_cache' = r.cache
    /\ resolveOp' = [op |-> "resolve", purpose |-> purpose, model_type |-> model_type,
                     before |-> requirements_cache, ret |-> r]
    /\ UNCHANGED schemaFile

\* A call of loader.validate_configuration(purpose, model_type)
IsValid(purpose, model_type) ==
    LET r == ValidateConfiguration(requirements_cache, schemaFile, purpose, model_type) IN
    /\ requirements_cache' = r.cache
    /\ resolveOp' = [op |-> "is_valid", purpose |-> purpose, model_type |-> model_type,
                     before |-> requirements_cache, ret |-> r]
    /\ UNCHANGED schemaFile

\* A call of loader.get_available_configurations()
ListConfigurations ==
    LET r == GetAvailableConfigurations(requirements_cache, schemaFile) IN
    /\ requirements_cache' = r.cache
    /\ resolveOp' = [NoResolveOp EXCEPT !.op = "list", !.before = requirements_cache,
                                        !.ret = r]
    /\ UNCHANGED schemaFile

\* A call of loader.clear_cache()
ClearCache ==
    /\ requirements_cache' = ClearCacheResult(requirements_cache)
    /\ resolveOp' = [NoResolveOp EXCEPT !.op = "clear", !.before = requirements_cache]
    /\ UNCHANGED schemaFile

\* The requirements file is replaced, removed or damaged from outside
ChangeSchemaFile(file) ==
    /\ file # schemaFile
    /\ schemaFile' = file
    /\ resolveOp' = [NoResolveOp EXCEPT !.op = "file", !.before = requirements_cache]
    /\ UNCHANGED requirements_cache

ResolverIdle ==
    /\ schemaFile = SchemaMapping(SchemaDocument)
    /\ requirements_cache = NoCache
    /\ resolveOp = NoResolveOp

ResolverInit ==
    /\ schemaFile \in SchemaFiles
    /\ requirements_cache = NoCache
    /\ resolveOp = NoResolveOp

----------------------------------------------------------------------------
(* The field tracker behind st.session_state.chat_ai_agent *)

NoQuestion == ""

PendingField == [status |-> "pending", value |-> ""]

NoAgent == [initialized |-> FALSE, header |-> EmptyDict, requirements |-> <<>>,
            fields |-> EmptyDict]

FieldNamesOf(requirements) == {requirements[i].field_name : i \in 1..Len(requirements)}

\* The FieldSpec of each field of a resolved requirement set: mandatory is
\* the boolean the resolver left there
FieldSpecs(active_requirements) ==
    [i \in 1..Len(active_requirements) |->
        [field_name |-> active_requirements[i].field_name,
         mandatory |-> active_requirements[i].mandatory.b]]

\* initialize_session: one pending field state per field of the set
InitializeSession(model_type, portfolio, purpose, active_requirements) ==
    [initialized |-> TRUE,
     header |-> [model_type |-> model_type, portfolio |-> portfolio, purpose |-> purpose],
     requirements |-> FieldSpecs(active_requirements),
     fields |-> [f \in FieldNamesOf(active_requirements) |-> PendingField]]

\* process_user_response: unknown field names fail; pending -> provided,
\* provided/clarified -> clarified; the value is stored
ProcessUserResponseNeverClarified(a, field_name, value) ==
    IF field_name \notin DOMAIN a.fields
    THEN [success |-> FALSE, value |-> "", agent |-> a]
    ELSE [success |-> TRUE, value |-> value,
          agent |-> [a EXCEPT !.fields[field_name] = [status |-> "provided", value |-> value]]]
ProcessUserResponse(a, field_name, value) ==
    IF field_name \notin DOMAIN a.fields
    THEN [success |-> FALSE, value |-> "", agent |-> a]
    ELSE [success |-> TRUE, value |-> value,
          agent |-> [a EXCEPT !.fields[field_name] =
                        [status |-> IF @.status = "pending" THEN "provided" ELSE "clarified",
                         value |-> value]]]

\* The declared fields with the given mandatoriness, in declaration order
FieldsWhere(requirements, mandatory) ==
    SelectSeq(requirements, LAMBDA spec : spec.mandatory = mandatory)

\* generate_next_question: the first pending field, mandatory fields first
NextPendingFieldAsDeclared(a) ==
    LET names == [i \in 1..Len(a.requirements) |-> a.requirements[i].field_name]
        pending == SelectSeq(names, LAMBDA f : a.fields[f].status = "pending")
    IN IF pending = <<>> THEN NoQuestion ELSE pending[1]
NextPendingField(a) ==
    LET order == FieldsWhere(a.requirements, TRUE) \o FieldsWhere(a.requirements, FALSE)
        pending == SelectSeq(order, LAMBDA spec : a.fields[spec.field_name].status = "pending")
    IN IF pending = <<>> THEN NoQuestion ELSE pending[1].field_name

\* get_completion_status
GetCompletionStatusAnyMandatory(a) ==
    LET done(mandatory) ==
            {i \in 1..Len(a.requirements) :
                /\ a.requirements[i].mandatory = mandatory
                /\ a.fields[a.requirements[i].field_name].status # "pending"}
        total(mandatory) ==
            {i \in 1..Len(a.requirements) : a.requirements[i].mandatory = mandatory}
    IN [mandatory_completed |-> Cardinality(done(TRUE)),
        mandatory_total |-> Cardinality(total(TRUE)),
        optional_completed |-> Cardinality(done(FALSE)),
        optional_total |-> Cardinality(total(FALSE)),
        all_mandatory_complete |-> done(TRUE) # {} \/ total(TRUE) = {},
        all_complete |-> done(TRUE) = total(TRUE) /\ done(FALSE) = total(FALSE)]
GetCompletionStatus(a) ==
    LET done(mandatory) ==
            {i \in 1..Len(a.requirements) :
                /\ a.requirements[i].mandatory = mandatory
                /\ a.fields[a.requirements[i].field_name].status # "pending"}
        total(mandatory) ==
            {i \in 1..Len(a.requirements) : a.requirements[i].mandatory = mandatory}
    IN [mandatory_completed |-> Cardinality(done(TRUE)),
        mandatory_total |-> Cardinality(total(TRUE)),
        optional_completed |-> Cardinality(done(FALSE)),
        optional_total |-> Cardinality(total(FALSE)),
        all_mandatory_complete |-> done(TRUE) = total(TRUE),
        all_complete |-> done(TRUE) = total(TRUE) /\ done(FALSE) = total(FALSE)]

\* The user_specs of get_current_json / get_collected_data: every field that
\* has left pending, with its value
CollectedUserSpecs(a) ==
    [f \in {g \in DOMAIN a.fields : a.fields[g].status # "pending"} |-> a.fields[f].value]

\* reset_session: every field back to pending, the requirement set kept
ResetSession(a) == [a EXCEPT !.fields = [f \in DOMAIN a.fields |-> PendingField]]

\* followed: how many answers in a row, since the tracker was seeded or reset,
\* were given to the field that generate_next_question returns (-1 once an
\* answer was given to another field or failed)
NoTrackerOp ==
    [op |-> "none", field_name |-> "", value |-> "", success |-> FALSE, followed |-> 0]

\* A call of agent.initialize_session with a resolved requirement set
TrackerInitialize(model_type, portfolio, purpose, active_requirements) ==
    /\ agent' = InitializeSession(model_type, portfolio, purpose, active_requirements)
    /\ trackerOp' = [NoTrackerOp EXCEPT !.op = "initialize", !.success = TRUE]

\* A call of agent.process_user_response(field_name, value)
TrackerRecordAnswer(field_name, value) ==
    LET result == ProcessUserResponse(agent, field_name, value) IN
    /\ agent' = result.agent
    /\ trackerOp' = [op |-> "record", field_name |-> field_name, value |-> value,
                     success |-> result.success,
                     followed |-> IF /\ result.success
                                     /\ field_name = NextPendingField(agent)
                                     /\ trackerOp.followed >= 0
                                  THEN trackerOp.followed + 1 ELSE -1]

\* A call of agent.reset_session()
TrackerReset ==
    /\ agent' = ResetSession(agent)
    /\ trackerOp' = [NoTrackerOp EXCEPT !.op = "reset", !.success = TRUE]

\* A call of agent.generate_next_question(), which changes nothing
TrackerNextQuestion ==
    /\ trackerOp' = [NoTrackerOp EXCEPT !.op = "next", !.field_name = NextPendingField(agent),
                                        !.success = TRUE, !.followed = trackerOp.followed]
    /\ UNCHANGED agent

\* completion_status as Step4JSONStore.save reads it
CompletionArg(status) == IF status.all_mandatory_complete THEN "true" ELSE "false"

----------------------------------------------------------------------------
(* The session handlers: diagnostic_pipeline_ui.py *)

\* The values of the sidebar's select boxes
ModelType_PD == <<"P", "D", " ", "(", "P", "r", "o", "b", "a", "b", "i", "l", "i", "t", "y", " ", "o", "f", " ", "D", "e", "f", "a", "u", "l", "t", ")">>
ModelType_LGD == <<"L", "G", "D", " ", "(", "L", "o", "s", "s", " ", "G", "i", "v", "e", "n", " ", "D", "e", "f", "a", "u", "l", "t", ")">>
Portfolio_RETAIL == S_Retail
Purpose_IFRS9 == <<"I", "F", "R", "S", " ", "9">>
Purpose_AIRB == <<"A", "I", "R", "B", " ", "(", "A", "d", "v", "a", "n", "c", "e", "d", " ", "I", "n", "t", "e", "r", "n", "a", "l", " ", "R", "a", "t", "i", "n", "g", "s", "-", "B", "a", "s", "e", "d", ")">>

ModelTypes == {ModelType_PD, ModelType_LGD}
Portfolios == {Portfolio_RETAIL}
Purposes == {Purpose_IFRS9, Purpose_AIRB}

\* What the user can type or pick as a response; "" is an empty text area
UserResponses == {"", "Yes"}

NoConfig == [model_type |-> <<>>, portfolio |-> <<>>, purpose |-> <<>>]

NoSessionOp == [op |-> "none", saved |-> FALSE, path |-> <<>>, compiled |-> ""]

\* init_session_state in a new browser session or a restarted process
SessionInit ==
    /\ diagnostic_started = FALSE
    /\ selected_config = NoConfig
    /\ show_step4 = FALSE
    /\ last_lookup_result = "none"
    /\ current_question = NoQuestion
    /\ agent = NoAgent
    /\ answered = {}
    /\ sessionOp = NoSessionOp
    /\ trackerOp = NoTrackerOp

\* loop.run_until_complete(agent.generate_next_question()): the next pending
\* field, or None when the call raises and the handler catches it
GeneratedQuestion(a, raises) == IF raises THEN NoQuestion ELSE NextPendingField(a)

\* The chat is rendered: a diagnostic was started and the last lookup succeeded
ChatShown == diagnostic_started /\ last_lookup_result = "success"

\* perform_diagnostic_context_lookup: validate_configuration, then
\* get_active_requirements; any exception makes the lookup fail. The loader
\* reads the same file throughout a session, so what it returns does not
\* depend on its cache.
PerformDiagnosticContextLookup(purpose, model_type) ==
    LET valid == ValidateConfiguration(NoCache, SchemaMapping(SchemaDocument),
                                       purpose, model_type)
        active == GetActiveRequirements(valid.cache, SchemaMapping(SchemaDocument),
                                        purpose, model_type)
    IN [success |-> valid.raised = "" /\ valid.valid /\ active.raised = "",
        active_requirements |-> active.requirements]

\* "Run Diagnostic"
RunDiagnostic(model_type, portfolio, purpose, raises) ==
    LET clean_model_type == SplitFirst(model_type, " ")
        clean_purpose == SplitFirst(purpose, " ")
        lookup_result == PerformDiagnosticContextLookup(clean_purpose, clean_model_type)
        seeded == InitializeSession(clean_model_type, portfolio, clean_purpose,
                                    lookup_result.active_requirements)
    IN /\ diagnostic_started' = TRUE
       /\ selected_config' = [model_type |-> model_type, portfolio |-> portfolio,
                              purpose |-> purpose]
       /\ show_step4' = FALSE
       /\ IF lookup_result.success
          THEN /\ agent' = seeded
               /\ current_question' = GeneratedQuestion(seeded, raises)
               /\ last_lookup_result' = "success"
               /\ answered' = {}
          ELSE /\ last_lookup_result' = "failure"
               /\ UNCHANGED <<agent, current_question, answered>>
       /\ sessionOp' = [NoSessionOp EXCEPT !.op = "run"]
       /\ UNCHANGED <<clock, draftFile, outFiles, persistLog>>

\* "Submit Response" on the question shown
SubmitResponse(user_response, raises) ==
    /\ ChatShown
    /\ current_question # NoQuestion
    /\ sessionOp' = [NoSessionOp EXCEPT !.op = "submit"]
    /\ IF user_response = ""
       THEN UNCHANGED <<agent, draftFile, current_question, answered>>
       ELSE LET result == ProcessUserResponse(agent, current_question, user_response) IN
            IF ~result.success
            THEN UNCHANGED <<agent, draftFile, current_question, answered>>
            ELSE /\ agent' = result.agent
                 /\ answered' = answered \cup {current_question}
                 /\ draftFile' = UpsertField(draftFile, result.agent.header, current_question,
                                             result.value,
                                             CompletionArg(GetCompletionStatus(result.agent)),
                                             clock).file
                 /\ current_question' = GeneratedQuestion(result.agent, raises)
    /\ UNCHANGED <<clock, outFiles, persistLog, diagnostic_started, selected_config,
                   show_step4, last_lookup_result>>

\* "Retry Loading Question"
RetryLoadingQuestion(raises) ==
    /\ ChatShown
    /\ current_question = NoQuestion
    /\ ~GetCompletionStatus(agent).all_complete
    /\ current_question' = GeneratedQuestion(agent, raises)
    /\ sessionOp' = [NoSessionOp EXCEPT !.op = "retry"]
    /\ UNCHANGED <<clock, draftFile, outFiles, persistLog, diagnostic_started,
                   selected_config, show_step4, last_lookup_result, agent, answered>>

\* for k, v in user_specs.items(): json_store.upsert_field(header, k, v, status);
\* the first call that raises ends the loop
RECURSIVE UpsertAll(_, _, _, _, _, _)
UpsertAll(file, header, user_specs, fields, completion_status, now) ==
    IF fields = <<>> THEN [file |-> file, raised |-> ""]
    ELSE LET r == UpsertField(file, header, Head(fields), user_specs[Head(fields)],
                              completion_status, now)
         IN IF r.raised # "" THEN [file |-> r.file, raised |-> r.raised]
            ELSE UpsertAll(r.file, header, user_specs, Tail(fields), completion_status, now)

\* The keys of the collected user_specs, in the order of the requirement set
CollectedOrder(a) ==
    LET names == [i \in 1..Len(a.requirements) |-> a.requirements[i].field_name]
    IN SelectSeq(names, LAMBDA f : a.fields[f].status # "pending")

\* "Proceed to Step 4 - Final Handoff": the collected fields are upserted into
\* the draft, the draft is loaded and written as the final contract; any
\* exception is caught and reported; show_step4 is set in every case.
ProceedToStep4 ==
    /\ ChatShown
    /\ current_question = NoQuestion
    /\ GetCompletionStatus(agent).all_mandatory_complete
    /\ Len(persistLog) < MaxHandoffs
    /\ LET upserted == UpsertAll(draftFile, agent.header, CollectedUserSpecs(agent),
                                 CollectedOrder(agent),
                                 CompletionArg(GetCompletionStatus(agent)), clock)
           loaded == Load(upserted.file)
           saved == SaveFinalJson(outFiles, loaded.doc, NoFilename, clock)
           ok == upserted.raised = "" /\ loaded.raised = "" /\ saved.raised = ""
       IN /\ draftFile' = upserted.file
          /\ outFiles' = IF upserted.raised = "" /\ loaded.raised = "" THEN saved.files
                         ELSE outFiles
          /\ persistLog' = IF ok THEN Append(persistLog,
                                        [path |-> saved.path, header |-> loaded.doc.header,
                                         auto |-> TRUE, time |-> clock,
                                         existed |-> saved.path \in DOMAIN outFiles])
                           ELSE persistLog
          /\ sessionOp' = [op |-> "proceed", saved |-> ok,
                           path |-> IF ok THEN saved.path ELSE <<>>,
                           compiled |-> CompileFinalJson(DictPart(agent.header),
                                            DictPart(CollectedUserSpecs(agent))).raised]
    /\ show_step4' = TRUE
    /\ UNCHANGED <<clock, diagnostic_started, selected_config, last_lookup_result,
                   current_question, agent, answered>>

\* "Reset All Fields"
ResetAllFields ==
    /\ ChatShown
    /\ current_question = NoQuestion
    /\ agent' = ResetSession(agent)
    /\ current_question' = NoQuestion
    /\ sessionOp' = [NoSessionOp EXCEPT !.op = "reset"]
    /\ UNCHANGED <<clock, draftFile, outFiles, persistLog, diagnostic_started,
                   selected_config, show_step4, last_lookup_result, answered>>

\* draft.get(key, {}) in create_step4_ui
GetOrEmptyDict(part) == IF part.kind = "absent" THEN DictPart(EmptyDict) ELSE part

\* create_step4_ui up to its buttons: the draft is loaded and compiled, and the
\* draft's meta is added to the contract
Step4FinalJson(file) ==
    LET loaded == Load(file)
        compiled == CompileFinalJson(GetOrEmptyDict(loaded.doc.header),
                                     GetOrEmptyDict(loaded.doc.user_specs))
    IN [shown |-> loaded.raised = "" /\ loaded.doc # EmptyDoc /\ compiled.raised = "",
        final_json |-> [compiled.contract EXCEPT !.meta = loaded.doc.meta]]

\* "Save Final JSON" in the Step 4 panel
SaveFinalJsonButton ==
    /\ show_step4
    /\ Step4FinalJson(draftFile).shown
    /\ Len(persistLog) < MaxPersists
    /\ LET final_json == Step4FinalJson(draftFile).final_json
           saved == SaveFinalJson(outFiles, final_json, NoFilename, clock)
       IN /\ outFiles' = saved.files
          /\ persistLog' = IF saved.raised # "" THEN persistLog
                           ELSE Append(persistLog,
                                       [path |-> saved.path, header |-> final_json.header,
                                        auto |-> TRUE, time |-> clock,
                                        existed |-> saved.path \in DOMAIN outFiles])
          /\ sessionOp' = [NoSessionOp EXCEPT !.op = "save_final",
                                              !.saved = saved.raised = "",
                                              !.path = saved.path]
    /\ UNCHANGED <<clock, draftFile, diagnostic_started, selected_config, show_step4,
                   last_lookup_result, current_question, agent, answered>>

\* A new browser session (or a restart of the app): the session state starts
\* afresh, the files of the outputs directory stay.
NewSession ==
    /\ diagnostic_started' = FALSE
    /\ selected_config' = NoConfig
    /\ show_step4' = FALSE
    /\ last_lookup_result' = "none"
    /\ current_question' = NoQuestion
    /\ agent' = NoAgent
    /\ answered' = {}
    /\ sessionOp' = NoSessionOp
    /\ UNCHANGED <<clock, draftFile, outFiles, persistLog>>

----------------------------------------------------------------------------
(* Specifications *)

InitLedger == clock = 0 /\ SessionInit /\ ResolverIdle /\ LedgerInit /\ TxnIdle /\ DraftIdle /\ HandoffInit

NextLedger ==
    \/ Tick /\ UNCHANGED <<resolverVars, ledgerVars, draftVars, handoffVars, sessionVars>>
    \/ \E c \in Contracts, r \in ExecutionResults :
          SaveExecutionResults(c, r) /\ UNCHANGED <<txnVars, resolverVars, draftVars, handoffVars, sessionVars>>
    \/ \E limit \in -1..MaxLimit : GetExecutionHistory(limit) /\ UNCHANGED <<txnVars, resolverVars, draftVars, handoffVars, sessionVars>>
    \/ \E record_id \in 0..(MaxExecutions + 1) :
          DownloadResults(record_id) /\ UNCHANGED <<txnVars, resolverVars, draftVars, handoffVars, sessionVars>>
    \/ CloseManager /\ UNCHANGED <<txnVars, resolverVars, draftVars, handoffVars, sessionVars>>
    \/ NewManager /\ UNCHANGED <<txnVars, resolverVars, draftVars, handoffVars, sessionVars>>

SpecLedger == InitLedger /\ [][NextLedger]_vars

InitDraft == clock = 0 /\ SessionInit /\ ResolverIdle /\ DraftInit /\ LedgerInit /\ TxnIdle /\ HandoffInit

NextDraft ==
    \/ Tick /\ UNCHANGED <<resolverVars, ledgerVars, draftVars, handoffVars, sessionVars>>
    \/ DraftLoad /\ UNCHANGED <<resolverVars, ledgerVars, handoffVars, sessionVars>>
    \/ \E h \in HeaderInputs, f \in FieldNames, v \in FieldValues, cs \in CompletionInputs :
          DraftUpsert(h, f, v, cs) /\ UNCHANGED <<resolverVars, ledgerVars, handoffVars, sessionVars>>

SpecDraft == InitDraft /\ [][NextDraft]_vars

InitSave == clock = 0 /\ SessionInit /\ ResolverIdle /\ DraftInit /\ LedgerInit /\ TxnIdle /\ HandoffInit

NextSave ==
    \/ Tick /\ UNCHANGED <<resolverVars, ledgerVars, draftVars, handoffVars, sessionVars>>
    \/ DraftLoad /\ UNCHANGED <<resolverVars, ledgerVars, handoffVars, sessionVars>>
    \/ \E data \in SaveInputs, cs \in SaveCompletionInputs :
          DraftSave(data, cs) /\ UNCHANGED <<resolverVars, ledgerVars, handoffVars, sessionVars>>

SpecSave == InitSave /\ [][NextSave]_vars

InitCompile == clock = 0 /\ SessionInit /\ ResolverIdle /\ LedgerInit /\ TxnIdle /\ DraftIdle /\ HandoffInit

NextCompile ==
    \E h \in CompileHeaders, u \in CompileUserSpecs :
        Compile(h, u) /\ UNCHANGED <<resolverVars, ledgerVars, draftVars, sessionVars>>

SpecCompile == InitCompile /\ [][NextCompile]_vars

InitPersist == clock = 0 /\ SessionInit /\ ResolverIdle /\ LedgerInit /\ TxnIdle /\ DraftIdle /\ HandoffInit

NextPersist ==
    \/ Tick /\ UNCHANGED <<resolverVars, ledgerVars, draftVars, handoffVars, sessionVars>>
    \/ \E h \in PersistHeaders :
          Persist(h, NoFilename) /\ UNCHANGED <<resolverVars, ledgerVars, draftVars, sessionVars>>
    \/ \E h \in PersistHeaders, f \in ExplicitFilenames :
          Persist(h, f) /\ UNCHANGED <<resolverVars, ledgerVars, draftVars, sessionVars>>

SpecPersist == InitPersist /\ [][NextPersist]_vars

InitSession == clock = 0 /\ SessionInit /\ ResolverIdle /\ LedgerInit /\ TxnIdle /\ DraftIdle /\ HandoffInit

NextSession ==
    \/ Tick /\ UNCHANGED <<resolverVars, ledgerVars, draftVars, handoffVars, sessionVars>>
    \/ \E mt \in ModelTypes, pf \in Portfolios, pu \in Purposes, raises \in BOOLEAN :
          RunDiagnostic(mt, pf, pu, raises) /\ UNCHANGED <<resolverVars, ledgerVars, draftOp, written, upsertCall, compileOp, trackerOp>>
    \/ \E response \in UserResponses, raises \in BOOLEAN :
          SubmitResponse(response, raises) /\ UNCHANGED <<resolverVars, ledgerVars, draftOp, written, upsertCall, compileOp, trackerOp>>
    \/ \E raises \in BOOLEAN :
          RetryLoadingQuestion(raises) /\ UNCHANGED <<resolverVars, ledgerVars, draftOp, written, upsertCall, compileOp, trackerOp>>
    \/ ProceedToStep4 /\ UNCHANGED <<resolverVars, ledgerVars, draftOp, written, upsertCall, compileOp, trackerOp>>
    \/ ResetAllFields /\ UNCHANGED <<resolverVars, ledgerVars, draftOp, written, upsertCall, compileOp, trackerOp>>
    \/ SaveFinalJsonButton /\ UNCHANGED <<resolverVars, ledgerVars, draftOp, written, upsertCall, compileOp, trackerOp>>
    \/ NewSession /\ UNCHANGED <<resolverVars, ledgerVars, draftOp, written, upsertCall, compileOp, trackerOp>>

SpecSession == InitSession /\ [][NextSession]_vars

InitResolve == clock = 0 /\ SessionInit /\ ResolverInit /\ LedgerInit /\ TxnIdle /\ DraftIdle /\ HandoffInit

\* The strings the resolver is called with
ResolvePurposes ==
    {Purpose_AIRB, Purpose_IFRS9, S_Adjudication, <<"\t", "a", "i", "r", "b">>, <<>>}
ResolveModelTypes == {ModelType_PD, S_LGD, <<"p", "d", "\n">>}

NextResolve ==
    \/ \E p \in ResolvePurposes, m \in ResolveModelTypes :
          Resolve(p, m) /\ UNCHANGED <<clock, ledgerVars, draftVars, handoffVars, sessionVars>>
    \/ \E p \in ResolvePurposes, m \in ResolveModelTypes :
          IsValid(p, m) /\ UNCHANGED <<clock, ledgerVars, draftVars, handoffVars, sessionVars>>
    \/ ListConfigurations /\ UNCHANGED <<clock, ledgerVars, draftVars, handoffVars, sessionVars>>
    \/ ClearCache /\ UNCHANGED <<clock, ledgerVars, draftVars, handoffVars, sessionVars>>
    \/ \E file \in SchemaFiles :
          ChangeSchemaFile(file) /\ UNCHANGED <<clock, ledgerVars, draftVars, handoffVars, sessionVars>>

SpecResolve == InitResolve /\ [][NextResolve]_vars

InitConcurrent ==
    clock = 0 /\ SessionInit /\ ResolverIdle /\ LedgerInit /\ TxnIdle /\ DraftIdle /\ HandoffInit

NextConcurrent ==
    \/ Tick /\ UNCHANGED <<ledgerVars, resolverVars, draftVars, handoffVars, sessionVars>>
    \/ \E w \in Writers, c \in Contracts, r \in ExecutionResults :
          BeginInsert(w, c, r) /\ UNCHANGED <<resolverVars, draftVars, handoffVars, sessionVars>>
    \/ \E w \in Writers :
          CommitInsert(w) /\ UNCHANGED <<resolverVars, draftVars, handoffVars, sessionVars>>
    \/ \E w \in Writers :
          RollbackInsert(w) /\ UNCHANGED <<resolverVars, draftVars, handoffVars, sessionVars>>
    \/ \E limit \in -1..MaxLimit :
          GetExecutionHistory(limit) /\ UNCHANGED <<txnVars, resolverVars, draftVars, handoffVars, sessionVars>>
    \/ \E record_id \in 0..(MaxExecutions + 1) :
          DownloadResults(record_id) /\ UNCHANGED <<txnVars, resolverVars, draftVars, handoffVars, sessionVars>>

SpecConcurrent == InitConcurrent /\ [][NextConcurrent]_vars

InitDraftWriters ==
    clock = 0 /\ SessionInit /\ ResolverIdle /\ DraftInit /\ LedgerInit /\ TxnIdle /\ HandoffInit

\* The arguments the concurrent callers pass
WriterHeaders == {[model_type |-> S_PD]}
WriterValues == {"v1", Unserializable}

NextDraftWriters ==
    \/ \E w \in DraftWriters, h \in WriterHeaders, f \in FieldNames, v \in WriterValues,
          cs \in CompletionInputs :
          UpsertLoad(w, h, f, v, cs) /\ UNCHANGED <<resolverVars, ledgerVars, handoffVars, sessionVars>>
    \/ \E w \in DraftWriters :
          UpsertOpen(w) /\ UNCHANGED <<resolverVars, ledgerVars, handoffVars, sessionVars>>
    \/ \E w \in DraftWriters :
          UpsertDump(w) /\ UNCHANGED <<resolverVars, ledgerVars, handoffVars, sessionVars>>

SpecDraftWriters == InitDraftWriters /\ [][NextDraftWriters]_vars

InitTracker == clock = 0 /\ SessionInit /\ ResolverIdle /\ LedgerInit /\ TxnIdle /\ DraftIdle /\ HandoffInit

\* The requirement sets the tracker is seeded with: what the resolver returns
\* for the configurations of the schema document
TrackerRequirementSets ==
    {NormalizeFields(SchemaDocument[key]) : key \in DOMAIN SchemaDocument}

\* The field names and values the tracker is called with; "zz" is in no set
TrackerFieldNames == {"m1", "m2", "o1", "zz"}
TrackerValues == {"v1", "v2"}

NextTracker ==
    \/ \E reqs \in TrackerRequirementSets :
          TrackerInitialize(S_PD, S_Retail, S_AIRB, reqs)
              /\ UNCHANGED <<clock, resolverVars, ledgerVars, draftVars, handoffVars, uiVars>>
    \/ \E f \in TrackerFieldNames, v \in TrackerValues :
          TrackerRecordAnswer(f, v)
              /\ UNCHANGED <<clock, resolverVars, ledgerVars, draftVars, handoffVars, uiVars>>
    \/ TrackerReset /\ UNCHANGED <<clock, resolverVars, ledgerVars, draftVars, handoffVars, uiVars>>
    \/ TrackerNextQuestion
          /\ UNCHANGED <<clock, resolverVars, ledgerVars, draftVars, handoffVars, uiVars>>

SpecTracker == InitTracker /\ [][NextTracker]_vars

----------------------------------------------------------------------------
(* Claims about the ledger, checked under SpecLedger *)

LedgerIds == {executions[i].id : i \in 1..Len(executions)}

\* C1: the ids returned by save_execution_results are strictly increasing in
\* call order, so none is returned twice, also across a restart of the manager
\* against the same database.
C1_IdsStrictlyIncreasing ==
    \A i, j \in 1..Len(returned) : i < j => returned[i].id < returned[j].id

\* Two ids were returned by two different manager objects.
C1_Witness ==
    \E i, j \in 1..Len(returned) : i < j /\ returned[i].epoch < returned[j].epoch

HistoryDescending(rows) ==
    \A i, j \in 1..Len(rows) : i < j => rows[i].id > rows[j].id

\* The result holds rows of the ledger, and every row left out has a lower id
\* than every row returned.
HistoryHighestIds(rows) ==
    /\ \A i \in 1..Len(rows) :
          \E k \in 1..Len(executions) : rows[i] = HistoryColumns(executions[k])
    /\ \A k \in 1..Len(executions) :
          \/ \E i \in 1..Len(rows) : rows[i].id = executions[k].id
          \/ \A i \in 1..Len(rows) : executions[k].id < rows[i].id

\* The row of the last save_execution_results that returned comes first.
HistoryLatestFirst(rows) ==
    (rows # <<>> /\ returned # <<>>) => rows[1].id = returned[Len(returned)].id

\* C2 as stated: for every integer limit N, history returns at most N records,
\* in strictly descending id order, the highest ids of the ledger at the call.
C2_Original ==
    ledgerOp.op = "history" =>
        /\ Len(ledgerOp.rows) <= ledgerOp.arg
        /\ HistoryDescending(ledgerOp.rows)
        /\ HistoryHighestIds(ledgerOp.rows)
        /\ HistoryLatestFirst(ledgerOp.rows)

\* C2 as amended: for every limit N >= 0 history returns min(N, size of the
\* ledger) records, and for N < 0 it returns every record; in both cases in
\* strictly descending id order, the highest ids of the ledger at the time of
\* the call, the latest returned id first.
C2_HistoryBounded ==
    ledgerOp.op = "history" =>
        /\ ledgerOp.arg >= 0 =>
              /\ Len(ledgerOp.rows) <= ledgerOp.arg
              /\ Len(ledgerOp.rows) < ledgerOp.arg => Len(ledgerOp.rows) = Len(executions)
        /\ ledgerOp.arg < 0 => Len(ledgerOp.rows) = Len(executions)
        /\ HistoryDescending(ledgerOp.rows)
        /\ HistoryHighestIds(ledgerOp.rows)
        /\ HistoryLatestFirst(ledgerOp.rows)

\* A history call with a limit smaller than the ledger cut the older row off.
C2_Witness ==
    /\ ledgerOp.op = "history"
    /\ ledgerOp.arg = 1
    /\ Len(executions) = 2
    /\ Len(ledgerOp.rows) = 1
    /\ ledgerOp.rows[1].id = 2

----------------------------------------------------------------------------
(* Claims about the draft store, checked under SpecDraft *)

\* The draft file without its meta.last_updated timestamp.
StripLastUpdated(file) ==
    IF file.state = "dict" THEN [file EXCEPT !.doc.meta.last_updated = 0] ELSE file

\* C3: upsert_field is idempotent: when a call repeats the arguments of the
\* call just before it, the persisted draft (all of it but meta.last_updated)
\* is what the first of the two calls left.
C3_UpsertIdempotent ==
    (draftOp.op = "upsert" /\ draftOp.repeat) =>
        StripLastUpdated(draftFile) = StripLastUpdated(draftOp.before)

\* The same upsert was applied twice, both calls returned, and the second call
\* wrote the file again (at a later time).
C3_Witness ==
    /\ draftOp.op = "upsert"
    /\ draftOp.repeat
    /\ draftOp.raised = ""
    /\ draftOp.before.state = "dict"
    /\ draftFile.doc.meta.last_updated # draftOp.before.doc.meta.last_updated

\* C4: after any sequence of upsert_field calls by a single writer, every field
\* that a returned upsert_field has written is still in the persisted
\* user_specs, with the value of the most recent such call.
C4_FieldsNeverLost ==
    \A f \in DOMAIN written :
        /\ draftFile.state = "dict"
        /\ draftFile.doc.user_specs.kind = "dict"
        /\ f \in DOMAIN draftFile.doc.user_specs.d
        /\ draftFile.doc.user_specs.d[f] = written[f]

\* C5: when upsert_field(header, ...) returns, every key of the passed header
\* has the passed value in the persisted header, every header key the draft had
\* before and the call did not pass keeps its value, and a following load
\* returns the draft the call returned.
C5_HeaderMergedPerKey ==
    (draftOp.op = "upsert" /\ draftOp.raised = "") =>
        LET old == Load(draftOp.before).doc.header
            new == draftFile.doc.header
        IN /\ draftFile.state = "dict"
           /\ new.kind = "dict"
           /\ \A k \in DOMAIN draftOp.header :
                 k \in DOMAIN new.d /\ new.d[k] = draftOp.header[k]
           /\ old.kind = "dict" =>
                 \A k \in DOMAIN old.d \ DOMAIN draftOp.header :
                     k \in DOMAIN new.d /\ new.d[k] = old.d[k]
           /\ Load(draftFile) = [raised |-> "", doc |-> draftOp.ret]

\* An upsert returned that overwrote one header key of the draft and did not
\* pass another one the draft held.
C5_Witness ==
    /\ draftOp.op = "upsert"
    /\ draftOp.raised = ""
    /\ LET old == Load(draftOp.before).doc.header IN
          /\ old.kind = "dict"
          /\ \E k \in DOMAIN old.d \ DOMAIN draftOp.header : TRUE
          /\ \E k \in DOMAIN old.d \cap DOMAIN draftOp.header : old.d[k] # draftOp.header[k]

----------------------------------------------------------------------------
(* Claims about compile_final_json, checked under SpecCompile *)

\* The required header keys that are absent from a header or hold "".
AbsentOrEmpty(header) ==
    {k \in SeqToSet(RequiredHeaderKeys) : k \notin DOMAIN header \/ Len(header[k]) = 0}

\* C6: compile(header, user_specs) on two mappings fails exactly when one of
\* model_type, portfolio, purpose is absent or empty in header; the error then
\* names exactly those keys, each once; otherwise the call succeeds.
C6_CompileFailsOnMissing ==
    (/\ compileOp.op = "compile"
     /\ compileOp.header.kind = "dict"
     /\ compileOp.user_specs.kind = "dict") =>
        LET bad == AbsentOrEmpty(compileOp.header.d) IN
        /\ (compileOp.raised # "") <=> (bad # {})
        /\ compileOp.raised \in {"", "ValueError"}
        /\ SeqToSet(compileOp.missing) = bad
        /\ Len(compileOp.missing) = Cardinality(bad)

\* compile({}, {}) failed and its error names all three keys.
C6_Witness ==
    /\ compileOp.op = "compile"
    /\ compileOp.header = DictPart(EmptyDict)
    /\ compileOp.user_specs = DictPart(EmptyDict)
    /\ compileOp.raised = "ValueError"
    /\ compileOp.missing = RequiredHeaderKeys

\* C7: a compile that succeeds returns a contract whose header is the header
\* passed and whose user_specs are the user_specs passed, key for key.
C7_CompileRoundTrips ==
    (compileOp.op = "compile" /\ compileOp.raised = "") =>
        /\ AbsentOrEmpty(compileOp.header.d) = {}
        /\ compileOp.contract.header = compileOp.header
        /\ compileOp.contract.user_specs = compileOp.user_specs

\* A compile succeeded on a header with a key beyond the required three and on
\* user_specs that are not empty.
C7_Witness ==
    /\ compileOp.op = "compile"
    /\ compileOp.raised = ""
    /\ "note" \in DOMAIN compileOp.header.d
    /\ compileOp.user_specs.d # EmptyDict
    /\ compileOp.contract.header.d.note = compileOp.header.d.note

----------------------------------------------------------------------------
(* Claims about save_final_json, checked under SpecPersist *)

\* C9: of the save_final_json calls made without a filename, none writes to
\* the path an earlier save_final_json call wrote, and two of them for
\* different headers write different paths.
C9_AutoNamedNeverCollide ==
    \A i, j \in 1..Len(persistLog) :
        (i < j /\ persistLog[j].auto) =>
            /\ persistLog[i].path # persistLog[j].path
            /\ ~persistLog[j].existed

----------------------------------------------------------------------------
(* Claims about the session, checked under SpecSession *)

\* C8: every final-contract file written has a header in which model_type,
\* portfolio and purpose are all present and not empty.
C8_FinalContractsHaveCompleteHeader ==
    \A path \in DOMAIN outFiles :
        /\ outFiles[path].state = "dict"
        /\ outFiles[path].doc.header.kind = "dict"
        /\ AbsentOrEmpty(outFiles[path].doc.header.d) = {}

MandatoryFieldNames(a) ==
    {a.requirements[i].field_name : i \in {j \in 1..Len(a.requirements) :
                                              a.requirements[j].mandatory}}

\* The user_specs of a final-contract file, {} when it has none
PersistedUserSpecs(file) ==
    IF file.state = "dict" /\ file.doc.user_specs.kind = "dict"
    THEN file.doc.user_specs.d ELSE EmptyDict

\* C10: when "Proceed to Step 4" is taken in a session in which exactly the
\* mandatory fields (at least one) were answered and an optional field is
\* pending, then all_mandatory_complete holds and all_complete does not,
\* compile on the collected header and specs succeeds, and the final-contract
\* file written holds exactly the user_specs answered in this session.
C10_EndToEnd ==
    (/\ sessionOp.op = "proceed"
     /\ MandatoryFieldNames(agent) # {}
     /\ answered = MandatoryFieldNames(agent)
     /\ DOMAIN CollectedUserSpecs(agent) = answered
     /\ \E f \in DOMAIN agent.fields : agent.fields[f].status = "pending") =>
        /\ GetCompletionStatus(agent).all_mandatory_complete
        /\ ~GetCompletionStatus(agent).all_complete
        /\ sessionOp.compiled = ""
        /\ sessionOp.saved
        /\ sessionOp.path \in DOMAIN outFiles
        /\ PersistedUserSpecs(outFiles[sessionOp.path]) = CollectedUserSpecs(agent)

----------------------------------------------------------------------------
(* Claims about the resolver, checked under SpecResolve *)

\* The document a resolver call worked on: the cached one when there was one,
\* the file's otherwise
DocumentUsed ==
    IF resolveOp.before.kind # "none" THEN resolveOp.before.doc ELSE schemaFile.doc

\* A resolve that found its key in a schema document
ResolveReturned ==
    /\ resolveOp.op = "resolve"
    /\ resolveOp.ret.raised = ""

\* "true" in any letter casing
IsTrueText(str) ==
    /\ Len(str) = 4
    /\ str[1] \in {"t", "T"} /\ str[2] \in {"r", "R"}
    /\ str[3] \in {"u", "U"} /\ str[4] \in {"e", "E"}

\* C11: a resolve of a key present in the schema document returns a set in
\* which every field's mandatory is a boolean: true for the text "true" in any
\* casing, false for any other text, the boolean itself for a boolean; and
\* resolving the same configuration again returns the same set.
C11_MandatoryIsBoolean ==
    ResolveReturned =>
        LET original == DocumentUsed[resolveOp.ret.lookup_key]
            resolved == resolveOp.ret.requirements
        IN /\ Len(resolved) = Len(original)
           /\ \A i \in 1..Len(resolved) :
                /\ resolved[i].field_name = original[i].field_name
                /\ resolved[i].mandatory.kind = "bool"
                /\ resolved[i].mandatory.b =
                      IF original[i].mandatory.kind = "str"
                      THEN IsTrueText(original[i].mandatory.s)
                      ELSE original[i].mandatory.b
           /\ GetActiveRequirements(requirements_cache, schemaFile, resolveOp.purpose,
                                    resolveOp.model_type).requirements = resolved

\* A resolve has turned a "True" and a text other than "true" into booleans
C11_Witness ==
    /\ ResolveReturned
    /\ LET original == DocumentUsed[resolveOp.ret.lookup_key] IN
       /\ \E i \in 1..Len(original) :
            /\ original[i].mandatory.kind = "str"
            /\ original[i].mandatory.s # S_true
            /\ resolveOp.ret.requirements[i].mandatory = BoolValue(TRUE)
       /\ \E i \in 1..Len(original) :
            /\ original[i].mandatory.kind = "str"
            /\ resolveOp.ret.requirements[i].mandatory = BoolValue(FALSE)

\* A resolve whose document loaded as a mapping that lacks the key built
ResolveKeyAbsent ==
    /\ resolveOp.op = "resolve"
    /\ requirements_cache.kind = "mapping"
    /\ BuildLookupKey(resolveOp.purpose, resolveOp.model_type) \notin DOMAIN DocumentUsed

\* C12: when the key built from (purpose, model_type) is not a key of the
\* loaded schema document, resolve fails with the configuration-not-found error
\* carrying the attempted key and all keys of the document, returns no
\* requirement set, and leaves the cached document as it was.
C12_ConfigurationNotFound ==
    ResolveKeyAbsent =>
        /\ resolveOp.ret.raised = "ValueError"
        /\ resolveOp.ret.lookup_key = BuildLookupKey(resolveOp.purpose, resolveOp.model_type)
        /\ resolveOp.ret.available_keys = DOMAIN DocumentUsed
        /\ resolveOp.ret.requirements = <<>>
        /\ requirements_cache.doc = DocumentUsed

\* Such a failure on a document that also has a key that is no configuration,
\* with a cache that an earlier resolve had normalized
C12_Witness ==
    /\ ResolveKeyAbsent
    /\ resolveOp.ret.raised = "ValueError"
    /\ \E key \in resolveOp.ret.available_keys : ~EndsWith(key, S_Requirements)
    /\ resolveOp.before.kind = "mapping"
    /\ resolveOp.before.doc # schemaFile.doc

\* The backing file cannot be loaded: absent, unreadable or not well-formed
LoadFails ==
    /\ resolveOp.before.kind = "none"
    /\ schemaFile.state \in {"absent", "unreadable", "malformed"}

\* C13: isValid and listConfigurations never throw, whatever the state of the
\* backing document; on a load or parse failure isValid returns false and
\* listConfigurations the empty mapping.
C13_ProbesNeverThrow ==
    resolveOp.op \in {"is_valid", "list"} =>
        /\ resolveOp.ret.raised = ""
        /\ LoadFails => /\ ~resolveOp.ret.valid
                        /\ resolveOp.ret.configurations = EmptyDict

\* The prefix of str before its first space or opening parenthesis
CutAtFirst(str) ==
    LET cuts == {i \in 1..Len(str) : str[i] \in {" ", "("}}
    IN IF cuts = {} THEN str
       ELSE SubSeq(str, 1, (CHOOSE i \in cuts : \A j \in cuts : i <= j) - 1)

\* str without its leading and trailing whitespace
Trimmed(str) ==
    LET inner == {i \in 1..Len(str) : str[i] \notin Whitespace}
    IN IF inner = {} THEN <<>>
       ELSE SubSeq(str, CHOOSE i \in inner : \A j \in inner : i <= j,
                        CHOOSE i \in inner : \A j \in inner : i >= j)

IfrsReplaced(str) == IF str = S_IFRS THEN S_IFRS9 ELSE str

KeyOfParts(purpose, model_type) ==
    purpose \o <<"_">> \o model_type \o <<"_">> \o S_Requirements

\* A resolver call that built a lookup key
KeyBuilt == resolveOp.op \in {"resolve", "is_valid"}

\* C14 as stated: the key is "{PURPOSE}_{MODEL_TYPE}_Requirements" with both
\* parts uppercased and cut at the first space or opening parenthesis, purpose
\* "IFRS" replaced by "IFRS9", and building the key again from the normalized
\* parts gives the same key.
C14_Original ==
    KeyBuilt =>
        LET purpose == IfrsReplaced(CutAtFirst(Upper(resolveOp.purpose)))
            model_type == CutAtFirst(Upper(resolveOp.model_type))
        IN /\ resolveOp.ret.lookup_key = KeyOfParts(purpose, model_type)
           /\ BuildLookupKey(purpose, model_type) = resolveOp.ret.lookup_key

\* C14 amended: as stated, with each part also stripped of leading and
\* trailing whitespace after the cut.
C14_KeyNormalized ==
    KeyBuilt =>
        LET purpose == IfrsReplaced(Trimmed(CutAtFirst(Upper(resolveOp.purpose))))
            model_type == Trimmed(CutAtFirst(Upper(resolveOp.model_type)))
        IN /\ resolveOp.ret.lookup_key = KeyOfParts(purpose, model_type)
           /\ BuildLookupKey(purpose, model_type) = resolveOp.ret.lookup_key

\* The key of ("IFRS 9", "LGD") was built and is "IFRS9_LGD_Requirements"
C14_Witness ==
    /\ KeyBuilt
    /\ resolveOp.purpose = Purpose_IFRS9
    /\ resolveOp.model_type = S_LGD
    /\ resolveOp.ret.lookup_key = KeyOfParts(S_IFRS9, S_LGD)

----------------------------------------------------------------------------
(* More claims about the draft store, checked under SpecDraft *)

\* C15: load returns the empty draft when the draft file does not exist, the
\* stored mapping when the file holds a well-formed mapping, and fails with a
\* parse error when the file exists and is not well-formed or is well-formed
\* but not a mapping.
C15_LoadFailsOnBadFile ==
    draftOp.op = "load" =>
        /\ draftOp.before.state = "absent" =>
              draftOp.raised = "" /\ draftOp.ret = EmptyDoc
        /\ draftOp.before.state = "dict" =>
              draftOp.raised = "" /\ draftOp.ret = draftOp.before.doc
        /\ draftOp.before.state \in {"malformed", "nondict"} => draftOp.raised # ""

----------------------------------------------------------------------------
(* More claims about the ledger, checked under SpecLedger *)

ReturnedIds == {returned[i].id : i \in 1..Len(returned)}

----------------------------------------------------------------------------
(* More claims about the session, checked under SpecSession *)

\* C17: in every reachable tracker state, all_mandatory_complete is true
\* exactly when no mandatory field of the active requirement set is pending,
\* and all_complete implies all_mandatory_complete.
C17_CompletionStatusConsistent ==
    agent.initialized =>
        LET status == GetCompletionStatus(agent) IN
        /\ status.all_mandatory_complete <=>
              \A f \in MandatoryFieldNames(agent) : agent.fields[f].status # "pending"
        /\ status.all_complete => status.all_mandatory_complete
        /\ status.all_complete =>
              \A f \in DOMAIN agent.fields : agent.fields[f].status # "pending"

\* One of two mandatory fields is answered and an optional field is pending
C17_Witness ==
    /\ agent.initialized
    /\ Cardinality(MandatoryFieldNames(agent)) = 2
    /\ \E f, g \in MandatoryFieldNames(agent) :
          /\ agent.fields[f].status = "provided"
          /\ agent.fields[g].status = "pending"
    /\ ~GetCompletionStatus(agent).all_mandatory_complete

----------------------------------------------------------------------------
(* Claims about failing writes, checked under SpecDraft *)

\* C19: when upsertField fails while it writes (a value cannot be
\* serialized), the draft file afterwards holds its complete previous content
\* or the complete new content, never a partial document, and a following
\* load does not fail.
C19_WriteIsAtomic ==
    (draftOp.op = "upsert" /\ draftOp.raised = "TypeError") =>
        /\ draftFile \in {draftOp.before, DictFile(draftOp.ret)}
        /\ Load(draftFile).raised = ""

----------------------------------------------------------------------------
(* Claims about concurrent use of the ledger, checked under SpecConcurrent *)

\* The records of the appends that returned, as history shows them
CommittedRecords ==
    {[id |-> returned[i].id, timestamp |-> executions[i].timestamp,
      execution_status |-> ExecutionStatus(returned[i].execution_result)] :
        i \in 1..Len(returned)}

\* C20: under any interleaving of concurrent appends and readers, a reader
\* observes only whole records of appends that were committed, an append that
\* fails leaves no record, and the ids returned are pairwise distinct.
C20_AppendIsOneTransaction ==
    /\ Len(executions) = Len(returned)
    /\ \A i \in 1..Len(returned) :
          executions[i] = NewRow(returned[i].id, executions[i].timestamp,
                                 returned[i].final_json, returned[i].execution_result)
    /\ \A i, j \in 1..Len(returned) : i # j => returned[i].id # returned[j].id
    /\ ledgerOp.op = "history" =>
          \A k \in 1..Len(ledgerOp.rows) : ledgerOp.rows[k] \in CommittedRecords
    /\ ledgerOp.op = "download" =>
          (ledgerOp.found <=> ledgerOp.arg \in ReturnedIds)

\* A reader ran while one caller's append was inserted and not yet committed,
\* after another caller's append had failed and one had been committed
C20_Witness ==
    /\ ledgerOp.op \in {"history", "download"}
    /\ \E w, v \in Writers : txn[w].pc = "inserted" /\ txn[v].last = "failed"
    /\ Len(executions) = 1

----------------------------------------------------------------------------
(* Claims about concurrent writers of the draft, checked under SpecDraftWriters *)

\* No call of upsert_field is in progress
WritersIdle == \A w \in DraftWriters : upsertCall[w].pc = "idle"

\* At most one process has ever called upsert_field
SingleWriter ==
    \E w \in DraftWriters : \A v \in DraftWriters \ {w} : upsertCall[v] = NoUpsertCall

FieldPersisted(f, v) ==
    /\ draftFile.state = "dict"
    /\ draftFile.doc.user_specs.kind = "dict"
    /\ f \in DOMAIN draftFile.doc.user_specs.d
    /\ draftFile.doc.user_specs.d[f] = v

\* The interleaving of the claim: the last calls of both processes returned,
\* they wrote different fields, and the field of one of them is not in the
\* persisted draft
LostUpdate ==
    /\ WritersIdle
    /\ \A w \in DraftWriters : upsertCall[w].last = "returned"
    /\ upsertCall["p1"].field # upsertCall["p2"].field
    /\ draftFile.state = "dict"
    /\ \E w \in DraftWriters :
          upsertCall[w].field \notin DOMAIN draftFile.doc.user_specs.d

\* C21: with a single writer of the draft path, no upsert_field that returned
\* is ever lost: between calls, every field a returned call wrote is in the
\* persisted draft with the value of the last such call. (With two writers
\* the calls interleave and LostUpdate is reachable.)
C21_SingleWriterNeverLoses ==
    (SingleWriter /\ WritersIdle) => \A f \in DOMAIN written : FieldPersisted(f, written[f])

----------------------------------------------------------------------------
(* Claims about the resolver's cache, checked under SpecResolve *)

\* The last resolver call was a resolve, an isValid or a listConfigurations
ResolverCalled == resolveOp.op \in {"resolve", "is_valid", "list"}

\* What the last resolver call returns for a given cache and backing file
ResolverCall(cache, file) ==
    IF resolveOp.op = "resolve"
    THEN GetActiveRequirements(cache, file, resolveOp.purpose, resolveOp.model_type)
    ELSE IF resolveOp.op = "is_valid"
    THEN ValidateConfiguration(cache, file, resolveOp.purpose, resolveOp.model_type)
    ELSE GetAvailableConfigurations(cache, file)

\* A backing file that holds the document d
FileHolding(d) == [state |-> d.kind, doc |-> d.doc]

\* The cache holds the document of the file (fields may have been normalized)
CacheHolds(cache, file) ==
    /\ cache.kind = file.state
    /\ DOMAIN cache.doc = DOMAIN file.doc
    /\ \A key \in DOMAIN file.doc :
          NormalizeFields(cache.doc[key]) = NormalizeFields(file.doc[key])

\* C22: a call made while a document is cached returns what the cached
\* document gives, whatever the backing file holds, and keeps the cache; a
\* call made with an empty cache reads the backing file, caches its document
\* when the load succeeds and caches nothing when the load fails; clear_cache
\* empties the cache.
C22_SuccessfulLoadsAreCached ==
    /\ ResolverCalled =>
          LET loaded == LoadRequirementsFile(resolveOp.before, schemaFile) IN
          /\ resolveOp.before.kind # "none" =>
                /\ resolveOp.ret = ResolverCall(NoCache, FileHolding(resolveOp.before))
                /\ CacheHolds(requirements_cache, FileHolding(resolveOp.before))
          /\ resolveOp.before.kind = "none" =>
                /\ resolveOp.ret = ResolverCall(NoCache, schemaFile)
                /\ loaded.raised = "" => CacheHolds(requirements_cache, schemaFile)
                /\ loaded.raised # "" => requirements_cache = NoCache
    /\ resolveOp.op = "clear" => requirements_cache = NoCache

----------------------------------------------------------------------------
(* Claims about save, checked under SpecSave *)

\* C23: after save(data, completion_status) has returned, load returns the
\* header and the user_specs of data and nothing else of what the file held,
\* with a meta whose last_updated is the time of the call; meta has
\* mandatory_complete equal to all_mandatory_complete when a completion status
\* was passed, and no completion_status when none was passed.
C23_SaveOverwrites ==
    (draftOp.op = "save" /\ draftOp.raised = "") =>
        LET loaded == Load(draftFile) IN
        /\ loaded.raised = ""
        /\ loaded.doc.header = draftOp.data.header
        /\ loaded.doc.user_specs = draftOp.data.user_specs
        /\ loaded.doc.meta.kind = "present"
        /\ loaded.doc.meta.last_updated = draftOp.now
        /\ draftOp.completion_status \in {"true", "false"} =>
              loaded.doc.meta.mandatory_complete = draftOp.completion_status
        /\ draftOp.completion_status = "none" =>
              loaded.doc.meta.mandatory_complete = "none"

\* A save without completion status, of a draft that carries an older meta,
\* returned on a file that held other fields and a completion snapshot
C23_Witness ==
    /\ draftOp.op = "save"
    /\ draftOp.raised = ""
    /\ draftOp.completion_status = "none"
    /\ draftOp.now = 1
    /\ draftOp.data.meta.kind = "present"
    /\ draftOp.before.state = "dict"
    /\ draftOp.before.doc.meta.mandatory_complete = "true"
    /\ draftOp.before.doc.user_specs.kind = "dict"
    /\ "a" \in DOMAIN draftOp.before.doc.user_specs.d

----------------------------------------------------------------------------
(* Claims about the field tracker, checked under SpecTracker *)

\* The fields whose state the step leaves as it was
FieldsKept(names) == \A f \in names : agent'.fields[f] = agent.fields[f]

\* C24: a recordAnswer that succeeds moves its field from pending to provided
\* or from provided/clarified to clarified, stores the value and touches no
\* other field; a recordAnswer for a name that is not in the requirement set
\* fails and changes nothing; a field becomes pending again only by reset or
\* initialize; reset keeps the requirement set and clears every value.
C24_FieldStateMachine ==
    [][/\ trackerOp'.op = "record" =>
             /\ trackerOp'.success <=>
                    trackerOp'.field_name \in FieldNamesOf(agent.requirements)
             /\ ~trackerOp'.success => agent' = agent
             /\ trackerOp'.success =>
                    LET f == trackerOp'.field_name IN
                    /\ agent'.fields[f].status =
                          IF agent.fields[f].status = "pending" THEN "provided" ELSE "clarified"
                    /\ agent'.fields[f].value = trackerOp'.value
                    /\ agent'.requirements = agent.requirements
                    /\ DOMAIN agent'.fields = DOMAIN agent.fields
                    /\ FieldsKept(DOMAIN agent.fields \ {f})
       /\ \A f \in DOMAIN agent.fields \cap DOMAIN agent'.fields :
             (agent.fields[f].status # "pending" /\ agent'.fields[f].status = "pending")
                 => trackerOp'.op \in {"reset", "initialize"}
       /\ trackerOp'.op = "reset" =>
             /\ agent'.requirements = agent.requirements
             /\ DOMAIN agent'.fields = DOMAIN agent.fields
             /\ \A f \in DOMAIN agent'.fields : agent'.fields[f] = PendingField
       /\ trackerOp'.op = "initialize" =>
             \A f \in DOMAIN agent'.fields : agent'.fields[f] = PendingField
      ]_vars

\* A field was answered again (it is clarified, with the last value)
\* while another field of the set is provided and a third is pending
C24_Witness ==
    /\ trackerOp.op = "record"
    /\ trackerOp.success
    /\ agent.fields[trackerOp.field_name] = [status |-> "clarified", value |-> trackerOp.value]
    /\ \E f, g \in DOMAIN agent.fields :
          agent.fields[f].status = "provided" /\ agent.fields[g].status = "pending"

\* The places in the requirement set of the fields that are pending
PendingIndexes ==
    {i \in 1..Len(agent.requirements) :
        agent.fields[agent.requirements[i].field_name].status = "pending"}

\* The field at place i is asked before the field at place j: a mandatory
\* field before an optional one, otherwise in declaration order
AskedBefore(i, j) ==
    \/ agent.requirements[i].mandatory /\ ~agent.requirements[j].mandatory
    \/ /\ agent.requirements[i].mandatory = agent.requirements[j].mandatory
       /\ i < j

\* C25: nextPendingField returns none exactly when no field is pending, and
\* otherwise the pending field that comes first when the mandatory fields are
\* taken in declaration order and then the optional ones; after n answers in a
\* row to the returned field, n fields have been visited, each once, and when
\* n is the number of fields it returns none.
C25_NextPendingFieldDeterministic ==
    LET next == NextPendingField(agent)
        visited == {f \in DOMAIN agent.fields : agent.fields[f].status # "pending"}
    IN /\ next = NoQuestion <=> PendingIndexes = {}
       /\ next # NoQuestion =>
             \E i \in PendingIndexes :
                 /\ agent.requirements[i].field_name = next
                 /\ \A j \in PendingIndexes \ {i} : AskedBefore(i, j)
       /\ trackerOp.followed >= 0 =>
             /\ Cardinality(visited) = trackerOp.followed
             /\ \A f \in visited : agent.fields[f].status = "provided"
             /\ trackerOp.followed = Cardinality(DOMAIN agent.fields) => next = NoQuestion

\* Every field of a set of two mandatory fields and an optional field declared
\* between them was answered by answering the returned field each time
C25_Witness ==
    /\ trackerOp.op = "record"
    /\ trackerOp.followed = 3
    /\ trackerOp.field_name = "o1"
    /\ NextPendingField(agent) = NoQuestion

----------------------------------------------------------------------------
(* Claims about the catalog of configurations, checked under SpecResolve *)

\* The suffix of a configuration key
ConfigurationSuffix == <<"_">> \o S_Requirements

\* A listConfigurations that returned the catalog of a schema document
CatalogReturned ==
    /\ resolveOp.op = "list"
    /\ resolveOp.ret.raised = ""
    /\ requirements_cache.kind = "mapping"

\* The key without the suffix
KeyStem(key) == SubSeq(key, 1, Len(key) - Len(ConfigurationSuffix))

\* What follows the first underscore of str; nothing when it has none
AfterFirstUnderscore(str) ==
    LET first == SplitFirst(str, "_")
    IN IF Len(first) = Len(str) THEN <<>> ELSE SubSeq(str, Len(first) + 2, Len(str))

\* C26: listConfigurations returns one entry for every key of the document
\* that ends in "_Requirements" and none for any other key; the purpose of the
\* entry is the segment of the key before its first underscore, the model
\* type is the rest of the key without the suffix and without trailing
\* underscore.
C26_ListConfigurationsParsesKeys ==
    CatalogReturned =>
        /\ DOMAIN resolveOp.ret.configurations =
              {key \in DOMAIN DocumentUsed : EndsWith(key, ConfigurationSuffix)}
        /\ \A key \in DOMAIN resolveOp.ret.configurations :
              /\ resolveOp.ret.configurations[key].purpose = SplitFirst(KeyStem(key), "_")
              /\ resolveOp.ret.configurations[key].model_type =
                    RStrip(AfterFirstUnderscore(KeyStem(key)), "_")

\* The catalog of a document with a key whose model type has two segments and
\* keys without the suffix was returned
C26_Witness ==
    /\ CatalogReturned
    /\ \E key \in DOMAIN resolveOp.ret.configurations :
          resolveOp.ret.configurations[key] =
              [purpose |-> S_AIRB, model_type |-> <<"P", "D", "_", "L", "G", "D">>]
    /\ \E key \in DOMAIN DocumentUsed : key \notin DOMAIN resolveOp.ret.configurations

\* C27: for every entry key -> (purpose, model_type) that listConfigurations
\* returns, the key built from (purpose, model_type) is key, isValid is true
\* and resolve returns the requirement set stored under key.
C27_CatalogIsResolvable ==
    CatalogReturned =>
        \A key \in DOMAIN resolveOp.ret.configurations :
            LET purpose == resolveOp.ret.configurations[key].purpose
                model_type == resolveOp.ret.configurations[key].model_type
                resolved == GetActiveRequirements(requirements_cache, schemaFile,
                                                  purpose, model_type)
            IN /\ BuildLookupKey(purpose, model_type) = key
               /\ ValidateConfiguration(requirements_cache, schemaFile,
                                        purpose, model_type).valid
               /\ resolved.raised = ""
               /\ resolved.requirements = NormalizeFields(DocumentUsed[key])

----------------------------------------------------------------------------
(* Claims about the gate of the final handoff, checked under SpecSession *)

\* C28: whenever the Step 4 panel is shown, all mandatory fields of the
\* active session are complete; after Run Diagnostic the panel is not shown;
\* and show_step4 becomes true only by a Proceed to Step 4 taken while all
\* mandatory fields are complete.
C28_HandoffGated ==
    /\ [](show_step4 => GetCompletionStatus(agent).all_mandatory_complete)
    /\ [](sessionOp.op = "run" => ~show_step4)
    /\ [][(~show_step4 /\ show_step4') =>
             /\ sessionOp'.op = "proceed"
             /\ GetCompletionStatus(agent).all_mandatory_complete]_vars

====
